---- MODULE Spec2Model ----
(***************************************************************************)
(* A model of webbrowser-rs: the Unix fallback chain that opens a URL in   *)
(* the default browser (src/src/unix.rs), the process launcher             *)
(* (src/src/common.rs) and the native platforms' entry points.             *)
(*                                                                         *)
(* Text is modelled as a sequence of one-character strings, so that the    *)
(* code's substitutions, splits and searches are computed, not assumed.    *)
(***************************************************************************)
EXTENDS Integers, Sequences, FiniteSets, TLC

(***************************************************************************)
(* Bounds of the model.                                                    *)
(***************************************************************************)
\* longest BROWSER candidate template explored by SpecTpl
MaxTplLen == 4
\* longest target URL explored by SpecTpl
MaxUrlLen == 3

(***************************************************************************)
(* Text primitives (Rust's str methods, as the code uses them).            *)
(***************************************************************************)
\* s[i..] starts with pat
StartsWithAt(s, i, pat) ==
    /\ i + Len(pat) <= Len(s) + 1
    /\ \A k \in 1..Len(pat) : s[i + k - 1] = pat[k]

\* str::contains(pat)
StrContains(s, pat) == \E i \in 1..(Len(s) + 1) : StartsWithAt(s, i, pat)

\* str::replace(from, to): the non-overlapping matches of `from`, found left to
\* right in the ORIGINAL text, are replaced; the replacement is never rescanned.
RECURSIVE ReplaceFrom(_, _, _, _)
ReplaceFrom(s, i, from, to) ==
    IF i > Len(s) THEN <<>>
    ELSE IF StartsWithAt(s, i, from)
         THEN to \o ReplaceFrom(s, i + Len(from), from, to)
         ELSE <<s[i]>> \o ReplaceFrom(s, i + 1, from, to)

\* (the text is evaluated once, then scanned)
StrReplace(s, from, to) ==
    CHOOSE r \in {ReplaceFrom(v, 1, from, to) : v \in {s}} : TRUE

\* str::split(ch): the pieces between separators, empty pieces included
\* ("" splits into one empty piece).
RECURSIVE SplitFrom(_, _, _, _)
SplitFrom(s, i, ch, cur) ==
    IF i > Len(s) THEN <<cur>>
    ELSE IF s[i] = ch
         THEN <<cur>> \o SplitFrom(s, i + 1, ch, <<>>)
         ELSE SplitFrom(s, i + 1, ch, Append(cur, s[i]))

StrSplit(s, ch) == SplitFrom(s, 1, ch, <<>>)

\* ASCII whitespace, as char::is_ascii_whitespace: space, tab, LF, FF, CR
AsciiWhitespace == {" ", "\t", "\n", "\f", "\r"}

\* str::split_ascii_whitespace(): maximal runs of non-whitespace, no empty piece
RECURSIVE SplitWsFrom(_, _, _)
SplitWsFrom(s, i, cur) ==
    IF i > Len(s) THEN (IF cur = <<>> THEN <<>> ELSE <<cur>>)
    ELSE IF s[i] \in AsciiWhitespace
         THEN (IF cur = <<>> THEN <<>> ELSE <<cur>>) \o SplitWsFrom(s, i + 1, <<>>)
         ELSE SplitWsFrom(s, i + 1, Append(cur, s[i]))

SplitAsciiWhitespace(s) ==
    CHOOSE r \in {SplitWsFrom(v, 1, <<>>) : v \in {s}} : TRUE

\* all sequences over `chars` of length at most n
SeqsUpTo(chars, n) == UNION {[1..k -> chars] : k \in 0..n}

(***************************************************************************)
(* try_with_browser_env: one BROWSER candidate turned into a command.      *)
(***************************************************************************)
PctS == <<"%", "s">>
PctC == <<"%", "c">>
PctPct == <<"%", "%">>

\* the three chained replacements, each over the whole result of the one before
BrowserCmdline(browser, url) ==
    StrReplace(StrReplace(StrReplace(browser, PctS, url), PctC, <<":">>),
               PctPct, <<"%">>)

\* cmdline.split_ascii_whitespace().collect()
BrowserCmdarr(browser, url) == SplitAsciiWhitespace(BrowserCmdline(browser, url))

\* the url is appended when the template has no %s (mutant: the test inverted)
AppendsUrlInverted(browser) == StrContains(browser, PctS)

AppendsUrl(browser) == ~StrContains(browser, PctS)

\* the arguments the closure gives the command: cmdarr without its first token,
\* then the url unless %s was in the template
BrowserCmdArgs(browser, url) ==
    LET cmdarr == BrowserCmdarr(browser, url)
    IN  Tail(cmdarr) \o (IF AppendsUrl(browser) THEN <<url>> ELSE <<>>)

(***************************************************************************)
(* The fixed texts of the code.                                            *)
(***************************************************************************)
Txt == [
    \* programs and fixed arguments of the Unix chain (unix.rs:57-80, 198-213, 242, 255, 265-267, 287)
    open |-> <<"o", "p", "e", "n">>,
    xdg_settings |-> <<"x", "d", "g", "-", "s", "e", "t", "t", "i", "n",
        "g", "s">>,
    get |-> <<"g", "e", "t">>,
    default_web_browser |-> <<"d", "e", "f", "a", "u", "l", "t", "-", "w",
        "e", "b", "-", "b", "r", "o", "w", "s", "e", "r">>,
    applications |-> <<"a", "p", "p", "l", "i", "c", "a", "t", "i", "o",
        "n", "s">>,
    kde_open |-> <<"k", "d", "e", "-", "o", "p", "e", "n">>,
    kde_open5 |-> <<"k", "d", "e", "-", "o", "p", "e", "n", "5">>,
    kfmclient |-> <<"k", "f", "m", "c", "l", "i", "e", "n", "t">>,
    newTab |-> <<"n", "e", "w", "T", "a", "b">>,
    gio |-> <<"g", "i", "o">>,
    gvfs_open |-> <<"g", "v", "f", "s", "-", "o", "p", "e", "n">>,
    gnome_open |-> <<"g", "n", "o", "m", "e", "-", "o", "p", "e", "n">>,
    mate_open |-> <<"m", "a", "t", "e", "-", "o", "p", "e", "n">>,
    exo_open |-> <<"e", "x", "o", "-", "o", "p", "e", "n">>,
    xdg_open |-> <<"x", "d", "g", "-", "o", "p", "e", "n">>,
    x_www_browser |-> <<"x", "-", "w", "w", "w", "-", "b", "r", "o", "w",
        "s", "e", "r">>,
    cmd_exe |-> <<"c", "m", "d", ".", "e", "x", "e">>,
    slash_c |-> <<"/", "c">>,
    start |-> <<"s", "t", "a", "r", "t">>,
    powershell_exe |-> <<"p", "o", "w", "e", "r", "s", "h", "e", "l", "l",
        ".", "e", "x", "e">>,
    Start |-> <<"S", "t", "a", "r", "t">>,
    wsl_open |-> <<"w", "s", "l", "-", "o", "p", "e", "n">>,
    \* desktops and the texts guess_desktop_env looks for (unix.rs:138-190)
    flatpak |-> <<"f", "l", "a", "t", "p", "a", "k">>,
    gnome |-> <<"g", "n", "o", "m", "e">>,
    cinnamon |-> <<"c", "i", "n", "n", "a", "m", "o", "n">>,
    kde |-> <<"k", "d", "e">>,
    mate |-> <<"m", "a", "t", "e">>,
    xfce |-> <<"x", "f", "c", "e">>,
    wsl |-> <<"w", "s", "l">>,
    unknown |-> <<"u", "n", "k", "n", "o", "w", "n">>,
    enabled |-> <<"e", "n", "a", "b", "l", "e", "d">>,
    \* schemes (unix.rs:196, 220, 238)
    http |-> <<"h", "t", "t", "p">>,
    https |-> <<"h", "t", "t", "p", "s">>,
    file |-> <<"f", "i", "l", "e">>,
    \* get_xdg_dirs (unix.rs:394, 404-405)
    local_share |-> <<".", "l", "o", "c", "a", "l", "/", "s", "h", "a",
        "r", "e">>,
    usr_local_share |-> <<"/", "u", "s", "r", "/", "l", "o", "c", "a", "l",
        "/", "s", "h", "a", "r", "e">>,
    usr_share |-> <<"/", "u", "s", "r", "/", "s", "h", "a", "r", "e">>,
    \* desktop entry keys and field codes (unix.rs:335-346, 367)
    desktop_entry |-> <<"[", "D", "e", "s", "k", "t", "o", "p", " ", "E",
        "n", "t", "r", "y", "]">>,
    Exec |-> <<"E", "x", "e", "c">>,
    Hidden |-> <<"H", "i", "d", "d", "e", "n">>,
    Terminal |-> <<"T", "e", "r", "m", "i", "n", "a", "l">>,
    true |-> <<"t", "r", "u", "e">>,
    pct_u |-> <<"%", "u">>,
    pct_U |-> <<"%", "U">>,
    pct_f |-> <<"%", "f">>,
    pct_F |-> <<"%", "F">>
]

\* static TEXT_BROWSERS
TEXT_BROWSERS == {
    <<"l", "y", "n", "x">>,
    <<"l", "i", "n", "k", "s">>,
    <<"l", "i", "n", "k", "s", "2">>,
    <<"e", "l", "i", "n", "k", "s">>,
    <<"w", "3", "m">>,
    <<"e", "w", "w">>,
    <<"n", "e", "t", "r", "i", "k">>,
    <<"r", "e", "t", "a", "w", "q">>,
    <<"c", "u", "r", "l">>
}

(***************************************************************************)
(* Results.                                                                *)
(***************************************************************************)
Ok == [ok |-> TRUE, kind |-> "none"]
Err(kind) == [ok |-> FALSE, kind |-> kind]

\* the kinds of std::io::Error the model tells apart
ErrorKinds == {"NotFound", "PermissionDenied", "Other"}

(***************************************************************************)
(* for_matching_path: the executable a command name resolves to.           *)
(***************************************************************************)
\* what Path::metadata can report of a path
FileStatus == {"absent", "exec_file", "plain_file", "dir"}

MetadataOk(st) == st # "absent"
IsFile(st) == st \in {"exec_file", "plain_file"}
\* permissions().mode() & 0o111 != 0 (a directory is searchable in the model)
HasExecBit(st) == st \in {"exec_file", "dir"}

\* the test both branches apply (mutant: the executable bit is not looked at)
IsExecutableFileNoModeTest(st) == MetadataOk(st) /\ IsFile(st)

IsExecutableFile(st) == MetadataOk(st) /\ IsFile(st) /\ HasExecBit(st)

\* PathBuf::push, Path::join: an absolute name replaces the path
PathPush(entry, name) ==
    IF entry = <<>> \/ (name # <<>> /\ name[1] = "/") THEN name
    ELSE IF entry[Len(entry)] = "/" THEN entry \o name
    ELSE entry \o <<"/">> \o name

\* the paths a lookup of `name` can ask the file system about
LookupPaths(name, pathVar) ==
    IF StrContains(name, <<"/">>) THEN {name}
    ELSE IF pathVar.set
         THEN {PathPush(StrSplit(pathVar.value, ":")[i], name) :
                    i \in 1..Len(StrSplit(pathVar.value, ":"))}
         ELSE {}

\* the loop over the PATH entries: the first entry that holds the executable
RECURSIVE FirstMatchingEntry(_, _, _)
FirstMatchingEntry(entries, name, fs) ==
    IF entries = <<>> THEN <<>>
    ELSE LET pb == PathPush(Head(entries), name)
         IN  IF IsExecutableFile(fs[pb]) THEN <<pb>>
             ELSE FirstMatchingEntry(Tail(entries), name, fs)

\* <<pb>> when op is invoked on pb, <<>> when the NotFound error is returned
ForMatchingPath(name, pathVar, fs) ==
    IF StrContains(name, <<"/">>)
    THEN (IF IsExecutableFile(fs[name]) THEN <<name>> ELSE <<>>)
    ELSE IF pathVar.set
         THEN FirstMatchingEntry(StrSplit(pathVar.value, ":"), name, fs)
         ELSE <<>>

\* the last component of a path
RECURSIVE BasenameFrom(_, _)
BasenameFrom(p, i) ==
    IF i = 0 THEN p
    ELSE IF p[i] = "/" THEN SubSeq(p, i + 1, Len(p))
    ELSE BasenameFrom(p, i - 1)

Basename(p) == BasenameFrom(p, Len(p))

\* mutant: no program is taken for a text browser
IsTextBrowserNever(pb) == FALSE

\* pb.ends_with(browser) for one of the names of TEXT_BROWSERS
IsTextBrowser(pb) == Basename(pb) \in TEXT_BROWSERS

(***************************************************************************)
(* run_command.                                                            *)
(***************************************************************************)
\* what the operating system does with a command that is really run: the spawn
\* fails with an error kind, or the child runs and ends in one of three ways
SpawnFailures == {"spawn_NotFound", "spawn_PermissionDenied", "spawn_Other"}
ChildExits == {"exit_zero", "exit_nonzero", "exit_signal"}
ProcBehaviours == SpawnFailures \cup ChildExits

SpawnErrorKind(proc) ==
    CASE proc = "spawn_NotFound" -> "NotFound"
      [] proc = "spawn_PermissionDenied" -> "PermissionDenied"
      [] OTHER -> "Other"

\* mutant: a dry run is not short-circuited
RunCommandNoDryRun(background, dry_run, proc) ==
    IF proc \in SpawnFailures THEN Err(SpawnErrorKind(proc))
    ELSE IF background \/ proc = "exit_zero" THEN Ok
    ELSE Err("Other")

\* mutant: the error of a failed spawn is replaced by Other
RunCommandLosesSpawnError(background, dry_run, proc) ==
    IF dry_run THEN Ok
    ELSE IF proc \in SpawnFailures THEN Err("Other")
    ELSE IF background \/ proc = "exit_zero" THEN Ok
    ELSE Err("Other")

\* mutant: a foreground child's exit status is not looked at
RunCommandIgnoresStatus(background, dry_run, proc) ==
    IF dry_run THEN Ok
    ELSE IF proc \in SpawnFailures THEN Err(SpawnErrorKind(proc))
    ELSE Ok

\* mutant: a background child is waited for, like a foreground one
RunCommandAlwaysWaits(background, dry_run, proc) ==
    IF dry_run THEN Ok
    ELSE IF proc \in SpawnFailures THEN Err(SpawnErrorKind(proc))
    ELSE IF proc = "exit_zero" THEN Ok
    ELSE Err("Other")

RunCommand(background, dry_run, proc) ==
    IF dry_run THEN Ok
    ELSE IF background
         THEN (IF proc \in SpawnFailures THEN Err(SpawnErrorKind(proc)) ELSE Ok)
         ELSE IF proc \in SpawnFailures THEN Err(SpawnErrorKind(proc))
              ELSE IF proc = "exit_zero" THEN Ok
              ELSE Err("Other")

\* one attempt to launch `name` with `args`: for_matching_path, and in its
\* closure the command and run_command. `mode` is "auto" where the code runs a
\* text browser in the foreground and anything else in the background, "bg" or
\* "fg" where the caller decides. The entry is what the attempt did.
Attempt(name, args, mode, dry_run, pathVar, fs, proc) ==
    LET found == ForMatchingPath(name, pathVar, fs)
    IN  IF found = <<>>
        THEN [res |-> Err("NotFound"),
              entry |-> [role |-> "launch", name |-> name, found |-> FALSE,
                         prog |-> <<>>, args |-> <<>>, bg |-> FALSE,
                         real |-> FALSE, proc |-> "none"]]
        ELSE LET pb == found[1]
                 bg == IF mode = "auto" THEN ~IsTextBrowser(pb) ELSE mode = "bg"
             IN  [res |-> RunCommand(bg, dry_run, proc),
                  entry |-> [role |-> "launch", name |-> name, found |-> TRUE,
                             prog |-> pb, args |-> args, bg |-> bg,
                             real |-> ~dry_run,
                             proc |-> IF dry_run THEN "none" ELSE proc]]

\* the environments a lookup of the call can meet: PATH unset, or one directory
PathValues == {
    [set |-> FALSE, value |-> <<>>],
    [set |-> TRUE, value |-> <<"/", "u", "s", "r", "/", "b", "i", "n">>]
}

\* the file systems a lookup of `name` can meet
FsViews(name, pathVar) == [LookupPaths(name, pathVar) -> FileStatus]

(***************************************************************************)
(* guess_desktop_env and the openers of each desktop.                      *)
(***************************************************************************)
\* u8::to_ascii_lowercase on the letters
AsciiLower == [A |-> "a", B |-> "b", C |-> "c", D |-> "d", E |-> "e",
               F |-> "f", G |-> "g", H |-> "h", I |-> "i", J |-> "j",
               K |-> "k", L |-> "l", M |-> "m", N |-> "n", O |-> "o",
               P |-> "p", Q |-> "q", R |-> "r", S |-> "s", T |-> "t",
               U |-> "u", V |-> "v", W |-> "w", X |-> "x", Y |-> "y",
               Z |-> "z"]

ToAsciiLowercase(s) ==
    [i \in 1..Len(s) |->
        IF s[i] \in DOMAIN AsciiLower THEN AsciiLower[s[i]] ELSE s[i]]

Unset == [set |-> FALSE, value |-> <<>>]
SetTo(v) == [set |-> TRUE, value |-> v]

\* std::env::var(..).unwrap_or_else(|_| default)
EnvOr(v, default) == IF v.set THEN v.value ELSE default

IsFlatpak(e) ==
    IF e.container.set
    THEN ToAsciiLowercase(e.container.value) = Txt.flatpak
    ELSE FALSE

\* the marker file is read on Linux only
IsWsl(os, e) ==
    IF os = "linux"
    THEN (IF e.wsl_interop.set
          THEN StrContains(e.wsl_interop.value, Txt.enabled)
          ELSE FALSE)
    ELSE FALSE

\* mutant: the KDE test comes before the GNOME test
DesktopFromEnvKdeFirst(e) ==
    LET xcd == ToAsciiLowercase(EnvOr(e.xdg_current_desktop, Txt.unknown))
        dsession == ToAsciiLowercase(EnvOr(e.desktop_session, Txt.unknown))
    IN  IF IsFlatpak(e) THEN Txt.flatpak
        ELSE IF \/ StrContains(xcd, Txt.kde)
                \/ e.kde_full_session.set
                \/ e.kde_session_version.set
             THEN Txt.kde
        ELSE IF \/ StrContains(xcd, Txt.gnome)
                \/ StrContains(xcd, Txt.cinnamon)
                \/ StrContains(dsession, Txt.gnome)
             THEN Txt.gnome
        ELSE IF StrContains(xcd, Txt.mate) \/ StrContains(dsession, Txt.mate)
             THEN Txt.mate
        ELSE IF StrContains(xcd, Txt.xfce) \/ StrContains(dsession, Txt.xfce)
             THEN Txt.xfce
        ELSE <<>>

\* unix.rs:159-185: the tests of guess_desktop_env that come before is_wsl();
\* <<>> when none of them holds
DesktopFromEnv(e) ==
    LET xcd == ToAsciiLowercase(EnvOr(e.xdg_current_desktop, Txt.unknown))
        dsession == ToAsciiLowercase(EnvOr(e.desktop_session, Txt.unknown))
    IN  IF IsFlatpak(e) THEN Txt.flatpak
        ELSE IF \/ StrContains(xcd, Txt.gnome)
                \/ StrContains(xcd, Txt.cinnamon)
                \/ StrContains(dsession, Txt.gnome)
             THEN Txt.gnome
        ELSE IF \/ StrContains(xcd, Txt.kde)
                \/ e.kde_full_session.set
                \/ e.kde_session_version.set
             THEN Txt.kde
        ELSE IF StrContains(xcd, Txt.mate) \/ StrContains(dsession, Txt.mate)
             THEN Txt.mate
        ELSE IF StrContains(xcd, Txt.xfce) \/ StrContains(dsession, Txt.xfce)
             THEN Txt.xfce
        ELSE <<>>

GuessDesktopEnv(os, e) ==
    LET d == DesktopFromEnv(e)
    IN  IF d # <<>> THEN d
        ELSE IF IsWsl(os, e) THEN Txt.wsl
        ELSE Txt.unknown

\* the environments guess_desktop_env can meet: the variables it reads and the
\* content of /proc/sys/fs/binfmt_misc/WSLInterop
DesktopEnv(container, xcd, dsession, kfs, ksv, interop) ==
    [container |-> container, xdg_current_desktop |-> xcd,
     desktop_session |-> dsession, kde_full_session |-> kfs,
     kde_session_version |-> ksv, wsl_interop |-> interop]

DesktopEnvs == {
    DesktopEnv(Unset, Unset, Unset, Unset, Unset, Unset),
    DesktopEnv(SetTo(<<"F", "l", "a", "t", "p", "a", "k">>), SetTo(<<"G",
        "N", "O", "M", "E">>), Unset, Unset, Unset, Unset),
    DesktopEnv(Unset, SetTo(<<"u", "b", "u", "n", "t", "u", ":", "G", "N",
        "O", "M", "E">>), Unset, Unset, Unset, Unset),
    DesktopEnv(Unset, SetTo(<<"X", "-", "C", "i", "n", "n", "a", "m", "o", "n">>), Unset, Unset, Unset, Unset),
    DesktopEnv(Unset, SetTo(<<"K", "D", "E">>), Unset, Unset, Unset, Unset),
    DesktopEnv(Unset, SetTo(<<"K", "D", "E">>), SetTo(<<"g", "n", "o", "m",
        "e">>), Unset, Unset, Unset),
    DesktopEnv(Unset, Unset, SetTo(<<"m", "a", "t", "e">>), SetTo(<<"t", "r",
        "u", "e">>), Unset, Unset),
    DesktopEnv(Unset, SetTo(<<"M", "A", "T", "E">>), Unset, Unset, Unset, Unset),
    DesktopEnv(Unset, Unset, SetTo(<<"x", "f", "c", "e">>), Unset, Unset,
               SetTo(<<"e", "n", "a", "b", "l", "e", "d", "\n">>)),
    DesktopEnv(Unset, Unset, Unset, Unset, Unset, SetTo(<<"e", "n", "a", "b",
        "l", "e", "d", "\n">>)),
    DesktopEnv(Unset, Unset, Unset, Unset, Unset, SetTo(<<"d", "i", "s", "a",
        "b", "l", "e", "d", "\n">>))
}

\* try_browser!(options, name, args...)
TryBrowser(name, args) == [name |-> name, args |-> args]

\* the match arms of open_browser_default for kde, gnome, mate and xfce
\* mutant: KDE's kfmclient is tried before kde-open and kde-open5
DesktopOpenersKfmclientFirst(de, url) ==
    CASE de = Txt.kde ->
            <<TryBrowser(Txt.kfmclient, <<Txt.newTab, url>>),
              TryBrowser(Txt.kde_open, <<url>>),
              TryBrowser(Txt.kde_open5, <<url>>)>>
      [] de = Txt.gnome ->
            <<TryBrowser(Txt.gio, <<Txt.open, url>>),
              TryBrowser(Txt.gvfs_open, <<url>>),
              TryBrowser(Txt.gnome_open, <<url>>)>>
      [] de = Txt.mate ->
            <<TryBrowser(Txt.gio, <<Txt.open, url>>),
              TryBrowser(Txt.gvfs_open, <<url>>),
              TryBrowser(Txt.mate_open, <<url>>)>>
      [] de = Txt.xfce ->
            <<TryBrowser(Txt.exo_open, <<url>>),
              TryBrowser(Txt.gio, <<Txt.open, url>>),
              TryBrowser(Txt.gvfs_open, <<url>>)>>
      [] OTHER -> <<>>

DesktopOpeners(de, url) ==
    CASE de = Txt.kde ->
            <<TryBrowser(Txt.kde_open, <<url>>),
              TryBrowser(Txt.kde_open5, <<url>>),
              TryBrowser(Txt.kfmclient, <<Txt.newTab, url>>)>>
      [] de = Txt.gnome ->
            <<TryBrowser(Txt.gio, <<Txt.open, url>>),
              TryBrowser(Txt.gvfs_open, <<url>>),
              TryBrowser(Txt.gnome_open, <<url>>)>>
      [] de = Txt.mate ->
            <<TryBrowser(Txt.gio, <<Txt.open, url>>),
              TryBrowser(Txt.gvfs_open, <<url>>),
              TryBrowser(Txt.mate_open, <<url>>)>>
      [] de = Txt.xfce ->
            <<TryBrowser(Txt.exo_open, <<url>>),
              TryBrowser(Txt.gio, <<Txt.open, url>>),
              TryBrowser(Txt.gvfs_open, <<url>>)>>
      [] OTHER -> <<>>

\* mutant: `&` is escaped before `^`, so the carets it adds are doubled
WslOpenersAmpFirst(url) ==
    <<TryBrowser(Txt.cmd_exe,
                 <<Txt.slash_c, Txt.start,
                   StrReplace(StrReplace(url, <<"&">>, <<"^", "&">>),
                              <<"^">>, <<"^", "^">>)>>),
      TryBrowser(Txt.powershell_exe,
                 <<Txt.Start, StrReplace(url, <<"&">>, <<"\"", "&", "\"">>)>>),
      TryBrowser(Txt.wsl_open, <<url>>)>>

\* try_wsl for an http or https target
WslOpeners(url) ==
    <<TryBrowser(Txt.cmd_exe,
                 <<Txt.slash_c, Txt.start,
                   StrReplace(StrReplace(url, <<"^">>, <<"^", "^">>),
                              <<"&">>, <<"^", "&">>)>>),
      TryBrowser(Txt.powershell_exe,
                 <<Txt.Start, StrReplace(url, <<"&">>, <<"\"", "&", "\"">>)>>),
      TryBrowser(Txt.wsl_open, <<url>>)>>

\* try_flatpak for an http or https target
FlatpakOpeners(url) == <<TryBrowser(Txt.xdg_open, <<url>>)>>

IsHttp(scheme) == scheme \in {Txt.http, Txt.https}

\* try_wsl for a file target: what get_wsl_win_config finds in PATH
WslConfigs == {"no_system32", "cmd_only", "powershell"}

\* try_wsl for a file target: what the query of the registered browser gives
\* once its process has run: nothing, a command line on another drive than C:,
\* a file path that needs a distro name that cannot be determined, or a
\* command line whose program is mapped to a Linux path
WslQueryOutputs == {"empty", "other_drive", "no_distro_name", "command"}

(***************************************************************************)
(* try_xdg and open_using_xdg_config.                                      *)
(***************************************************************************)
\* str::trim on text whose white space is ASCII
StrTrim(s) ==
    LET keep == {i \in 1..Len(s) : s[i] \notin AsciiWhitespace}
    IN  IF keep = {} THEN <<>>
        ELSE SubSeq(s, CHOOSE i \in keep : \A j \in keep : i <= j,
                       CHOOSE i \in keep : \A j \in keep : i >= j)

\* what `xdg-settings get default-web-browser` writes to its standard output
XdgSettingsOutputs == {
    [utf8 |-> FALSE, text |-> <<>>],
    [utf8 |-> TRUE, text |-> <<"\n">>],
    [utf8 |-> TRUE, text |-> <<"f", "i", "r", "e", "f", "o", "x", ".", "d",
        "e", "s", "k", "t", "o", "p", "\n">>],
    [utf8 |-> TRUE, text |-> <<"u", "s", "e", "r", "a", "p", "p", "-", "f",
        "f", ".", "d", "e", "s", "k", "t", "o", "p", "\n">>]
}

\* Command::output(): the spawn fails, or the child runs and its output is read
XdgSettingsRuns ==
    {[proc |-> f, utf8 |-> FALSE, text |-> <<>>] : f \in SpawnFailures}
    \cup {[proc |-> "exit_zero", utf8 |-> o.utf8, text |-> o.text] :
             o \in XdgSettingsOutputs}

IsAbsolute(p) == p # <<>> /\ p[1] = "/"

\* the variables get_xdg_dirs reads, and the home directory
XdgEnvs == {
    [data_home |-> Unset, home |-> <<<<"/", "h">>>>, data_dirs |-> SetTo(<<
        "/", "d", "1">>)],
    [data_home |-> SetTo(<<"/", "d", "h">>), home |-> <<<<"/", "h">>>>,
     data_dirs |-> SetTo(<<"/", "d", "1">>)],
    [data_home |-> SetTo(<<"r", "e", "l">>), home |-> <<>>, data_dirs |-> Unset]
}

\* mutant: XDG_DATA_HOME is taken whenever it is set
GetXdgDirsAnyDataHome(e) ==
    LET data_home ==
            IF e.data_home.set
            THEN <<e.data_home.value>>
            ELSE IF e.home # <<>>
                 THEN <<PathPush(e.home[1], Txt.local_share)>>
                 ELSE <<>>
        data_dirs ==
            IF e.data_dirs.set THEN StrSplit(e.data_dirs.value, ":")
            ELSE <<Txt.usr_local_share, Txt.usr_share>>
    IN  data_home \o data_dirs

GetXdgDirs(e) ==
    LET data_home ==
            IF e.data_home.set /\ IsAbsolute(e.data_home.value)
            THEN <<e.data_home.value>>
            ELSE IF e.home # <<>>
                 THEN <<PathPush(e.home[1], Txt.local_share)>>
                 ELSE <<>>
        data_dirs ==
            IF e.data_dirs.set THEN StrSplit(e.data_dirs.value, ":")
            ELSE <<Txt.usr_local_share, Txt.usr_share>>
    IN  data_home \o data_dirs

\* xdg_dir.join("applications").join(name)
ConfigPath(xdg_dir, name) == PathPush(PathPush(xdg_dir, Txt.applications), name)

\* what a configuration path can be: the mode of a file plays no part
ConfigStatus == {"absent", "plain_file", "dir"}

\* unix.rs:289-297: the path whose metadata decides, and what it is
ConfigLookups(xdg_dir, name) ==
    LET literal == ConfigPath(xdg_dir, name)
        child == ConfigPath(xdg_dir, StrReplace(name, <<"-">>, <<"/">>))
    IN  {[path |-> literal, status |-> st] : st \in ConfigStatus \ {"absent"}}
        \cup (IF StrContains(name, <<"-">>)
              THEN {[path |-> child, status |-> st] : st \in ConfigStatus}
              ELSE {[path |-> literal, status |-> "absent"]})

\* desktop files, as the lines read from them
DesktopFiles == {
    <<<<"[", "D", "e", "s", "k", "t", "o", "p", " ", "E", "n", "t", "r", "y",
        "]">>, <<"E", "x", "e", "c", "=", "l", "y", "n", "x", " ", "%", "u">>>>,

    <<<<"[", "D", "e", "s", "k", "t", "o", "p", " ", "E", "n", "t", "r", "y",
        "]">>, <<"E", "x", "e", "c", "=", "f", "i", "r", "e", "f", "o", "x",
        " ", "%", "u">>>>,
    <<<<"[", "D", "e", "s", "k", "t", "o", "p", " ", "E", "n", "t", "r", "y",
        "]">>, <<"E", "x", "e", "c", "=", "l", "y", "n", "x">>, <<"T", "e",
        "r", "m", "i", "n", "a", "l", "=", "t", "r", "u", "e">>>>,
    <<<<"[", "D", "e", "s", "k", "t", "o", "p", " ", "E", "n", "t", "r", "y",
        "]">>, <<"E", "x", "e", "c", "=", "f", "i", "r", "e", "f", "o", "x",
        " ", "%", "u">>, <<"H", "i", "d", "d", "e", "n", "=", "t", "r", "u",
        "e">>>>,
    <<<<"#", " ", "a", " ", "c", "o", "m", "m", "e", "n", "t">>, <<"[", "D",
        "e", "s", "k", "t", "o", "p", " ", "E", "n", "t", "r", "y", "]">>, <<
        "E", "x", "e", "c", "=">>, <<"[", "A", "n", "o", "t", "h", "e", "r",
        " ", "E", "n", "t", "r", "y", "]">>,
      <<"E", "x", "e", "c", "=", "/", "b", "i", "n", "/", "l", "s">>>>
}

\* what reading a configuration file that exists gives: a directory is opened
\* but every read of it fails; a file is unreadable or yields its lines
ConfigReads(status) ==
    IF status = "dir" THEN {[kind |-> "dir", lines |-> <<>>]}
    ELSE {[kind |-> "denied", lines |-> <<>>]}
         \cup {[kind |-> "lines", lines |-> f] : f \in DesktopFiles}

\* line.find('=')
FindChar(line, ch) ==
    IF \E i \in 1..Len(line) : line[i] = ch
    THEN CHOOSE i \in 1..Len(line) :
            line[i] = ch /\ \A j \in 1..(i - 1) : line[j] # ch
    ELSE 0

\* mutant: the keys of every section are taken
ParseLineAnySection(line, st) ==
    IF line = Txt.desktop_entry THEN [st EXCEPT !.in_desktop_entry = TRUE]
    ELSE IF StartsWithAt(line, 1, <<"[">>)
         THEN [st EXCEPT !.in_desktop_entry = FALSE]
    ELSE IF ~StartsWithAt(line, 1, <<"#">>)
         THEN LET idx == FindChar(line, "=")
                  key == SubSeq(line, 1, idx - 1)
                  value == SubSeq(line, idx + 1, Len(line))
              IN  IF idx = 0 THEN st
                  ELSE IF key = Txt.Exec
                       THEN [st EXCEPT !.cmdline = <<value>>]
                  ELSE IF key = Txt.Hidden
                       THEN [st EXCEPT !.hidden = (value = Txt.true)]
                  ELSE IF key = Txt.Terminal
                       THEN [st EXCEPT !.requires_terminal = (value = Txt.true)]
                  ELSE st
    ELSE st

\* the body of the loop over the lines
ParseLine(line, st) ==
    IF line = Txt.desktop_entry THEN [st EXCEPT !.in_desktop_entry = TRUE]
    ELSE IF StartsWithAt(line, 1, <<"[">>)
         THEN [st EXCEPT !.in_desktop_entry = FALSE]
    ELSE IF st.in_desktop_entry /\ ~StartsWithAt(line, 1, <<"#">>)
         THEN LET idx == FindChar(line, "=")
                  key == SubSeq(line, 1, idx - 1)
                  value == SubSeq(line, idx + 1, Len(line))
              IN  IF idx = 0 THEN st
                  ELSE IF key = Txt.Exec
                       THEN [st EXCEPT !.cmdline = <<value>>]
                  ELSE IF key = Txt.Hidden
                       THEN [st EXCEPT !.hidden = (value = Txt.true)]
                  ELSE IF key = Txt.Terminal
                       THEN [st EXCEPT !.requires_terminal = (value = Txt.true)]
                  ELSE st
    ELSE st

RECURSIVE ParseLinesFrom(_, _, _)
ParseLinesFrom(lines, i, st) ==
    IF i > Len(lines) THEN st
    ELSE ParseLinesFrom(lines, i + 1, ParseLine(lines[i], st))

\* in_desktop_entry, hidden, cmdline (<<>> is None) and requires_terminal
\* after the loop
ParseDesktopEntry(lines) ==
    ParseLinesFrom(lines, 1,
                   [in_desktop_entry |-> FALSE, hidden |-> FALSE,
                    cmdline |-> <<>>, requires_terminal |-> FALSE])

IsFieldCode(arg) == arg \in {Txt.pct_u, Txt.pct_U, Txt.pct_f, Txt.pct_F}

\* mutant: the url is appended whether or not a field code was replaced
XdgCmdArgsAlwaysAppends(cmdarr, url) ==
    LET rest == Tail(cmdarr)
        args == [i \in 1..Len(rest) |->
                    IF IsFieldCode(rest[i]) THEN url ELSE rest[i]]
    IN  Append(args, url)

\* the arguments of the command built in the closure of open_using_xdg_config
XdgCmdArgs(cmdarr, url) ==
    LET rest == Tail(cmdarr)
        args == [i \in 1..Len(rest) |->
                    IF IsFieldCode(rest[i]) THEN url ELSE rest[i]]
        url_added == \E i \in 1..Len(rest) : IsFieldCode(rest[i])
    IN  IF url_added THEN args ELSE Append(args, url)

(***************************************************************************)
(* What the native platforms report.                                       *)
(***************************************************************************)
\* what the platform holds for the call: on Windows the command AssocQueryStringW
\* gives for http, on macOS the application bundle of the browser asked for, on
\* Android the context the process runs in
NativeWorlds(os) ==
    CASE os = "windows" -> {"assoc_fails", "assoc_not_unicode",
                            "assoc_no_tokens", "assoc_exe_present",
                            "assoc_exe_absent"}
      [] os = "macos" -> {"no_cfurl", "app_no_path", "app_absent", "app_dir"}
      [] os = "android" -> {"jvm_handler", "jvm_no_handler",
                            "jvm_attach_fails", "jvm_no_intent_class",
                            "termux", "bare"}
      [] OTHER -> {"none"}

\* OSStatus values of LSOpenFromURLSpec
LsStatuses == {0, -43, -10814, -10826, -50}

\* mutant: only the file-system code is taken for a missing application
LSErrorKindFileOnly(status) ==
    IF status = -43 THEN "NotFound"
    ELSE IF status = -10826 THEN "PermissionDenied"
    ELSE "Other"

\* impl From<OSStatus> for LSError, impl From<LSError> for Error
LSErrorKind(status) ==
    IF status \in {-43, -10814} THEN "NotFound"
    ELSE IF status = -10826 THEN "PermissionDenied"
    ELSE "Other"

\* macos.rs:24-58: the browsers that have an application URL
MacosBrowsers == {"Firefox", "Chrome", "Opera", "Safari", "Default"}


(***************************************************************************)
(* State.                                                                  *)
(***************************************************************************)
VARIABLES
    \* the call: open_browser_internal(browser, target, options) on a platform
    platform,   \* the target_os the crate was built for
    native,     \* what a native platform holds for the call
    browser,    \* the Browser asked for
    target,     \* the target URL, as text
    dryRun,     \* options.dry_run
    \* the call's progress
    pc,         \* where the call is
    res,        \* the Result in hand
    envBrowser, \* the BROWSER variable as read
    cands,      \* the BROWSER candidates not tried yet
    xdg,        \* try_xdg: browser name, directories left, config_found
    desktop,    \* what guess_desktop_env returned
    openers,    \* the desktop's openers not tried yet
    \* what has happened so far
    tried,      \* the strategies entered, in order
    runs,       \* the attempts of the strategy in progress: name looked up, ok
    last,       \* the latest attempt in full
    spawned,    \* a real process was started, or a native launch call made
    fgFailed,   \* a foreground child ended with a failure
    located,    \* a handler was located (an executable that exists)
    \* SpecTpl
    tplPc,      \* "start", "expanded", "panic" or "built"
    tplBrowser, \* the BROWSER candidate (non-empty)
    tplUrl,     \* the target URL
    tplCmdline, \* cmdline, once expanded
    tplCmdarr,  \* cmdarr, once expanded
    tplArgs,    \* the arguments of the command, once built
    \* the specifications of one function each
    fnPc,       \* where the function is
    fnIn,       \* what it was called with
    fnOut       \* what it has computed

callVars == <<platform, native, browser, target, dryRun>>
progressVars == <<pc, res, envBrowser, cands, xdg, desktop, openers>>
historyVars == <<tried, runs, last, spawned, fgFailed, located>>
chainVars == <<callVars, progressVars, historyVars>>
tplVars == <<tplPc, tplBrowser, tplUrl, tplCmdline, tplCmdarr, tplArgs>>

fnVars == <<fnPc, fnIn, fnOut>>

vars == <<chainVars, tplVars, fnVars>>

(***************************************************************************)
(* Spec: one call of open_browser_internal, from its entry to its return.  *)
(* The environment (variables, files, what a started process does) is read *)
(* where the code reads it, and is any of the listed values.               *)
(***************************************************************************)
UnixPlatforms == {"linux", "haiku"}
Platforms == UnixPlatforms \cup {"windows", "macos", "android"}

Browsers == {"Default", "Firefox", "InternetExplorer", "Chrome", "Opera",
             "Safari"}

Targets == {
    <<"h", "t", "t", "p", ":", "/", "/", "e", "x", "a", "m", "p", "l", "e",
      ".", "c", "o", "m">>,
    <<"f", "i", "l", "e", ":", "/", "/", "/", "t", "m", "p", "/", "t", ".",
      "t", "x", "t">>
}

\* url.scheme()
Scheme(t) == StrSplit(t, ":")[1]

\* the values of BROWSER: unset, the two candidates of the end-to-end
\* scenario, a text browser before a template with %s, an empty candidate,
\* and a candidate of one blank
BrowserEnvValues == {
    [set |-> FALSE, value |-> <<>>],
    [set |-> TRUE, value |->
        <<"/", "b", "i", "n", "/", "f", "a", "l", "s", "e", ":", "/", "u",
          "s", "r", "/", "b", "i", "n", "/", "t", "r", "u", "e">>],
    [set |-> TRUE, value |->
        <<"l", "y", "n", "x", ":", "f", "i", "r", "e", "f", "o", "x", " ",
          "%", "s">>],
    [set |-> TRUE, value |->
        <<":", "f", "i", "r", "e", "f", "o", "x">>],
    [set |-> TRUE, value |->
        <<"f", "i", "r", "e", "f", "o", "x", ":", " ", ":", "l", "y", "n",
          "x">>]
}

NoXdg == [name |-> <<>>, dirs |-> <<>>, config_found |-> FALSE,
          terminal |-> FALSE]

\* no attempt yet
\* no Result yet
Pending == [ok |-> FALSE, kind |-> "pending"]

\* an attempt together with the Result it gave
Outcome(e, r) ==
    [role |-> e.role, name |-> e.name, found |-> e.found, prog |-> e.prog,
     args |-> e.args, bg |-> e.bg, real |-> e.real, proc |-> e.proc,
     res |-> r]

NoEntry == [role |-> "none", name |-> <<>>, found |-> FALSE, prog |-> <<>>,
            args |-> <<>>, bg |-> FALSE, real |-> FALSE, proc |-> "none",
            res |-> Pending]

TplParked ==
    /\ tplPc = "parked"
    /\ tplBrowser = <<>>
    /\ tplUrl = <<>>
    /\ tplCmdline = <<>>
    /\ tplCmdarr = <<>>
    /\ tplArgs = <<>>

FnParked ==
    /\ fnPc = "parked"
    /\ fnIn = <<>>
    /\ fnOut = <<>>

Init ==
    /\ platform \in Platforms
    /\ native \in NativeWorlds(platform)
    /\ browser \in Browsers
    /\ target \in Targets
    /\ dryRun \in BOOLEAN
    /\ pc = "open"
    /\ res = Pending
    /\ envBrowser = [set |-> FALSE, value |-> <<>>]
    /\ cands = <<>>
    /\ xdg = NoXdg
    /\ desktop = "none"
    /\ openers = <<>>
    /\ tried = <<>>
    /\ runs = <<>>
    /\ last = NoEntry
    /\ spawned = FALSE
    /\ fgFailed = FALSE
    /\ located = FALSE
    /\ TplParked
    /\ FnParked

\* what an attempt adds to the history, `base` being the attempts before it
Noted(base, a) ==
    /\ runs' = Append(base, [name |-> a.entry.name, ok |-> a.res.ok])
    /\ last' = Outcome(a.entry, a.res)
    /\ spawned' = (spawned \/ (a.entry.real /\ a.entry.proc \in ChildExits))
    /\ fgFailed' = (fgFailed \/ (a.entry.real /\ ~a.entry.bg
                                 /\ a.entry.proc \in {"exit_nonzero", "exit_signal"}))
    /\ located' = (located \/ (a.entry.found /\ a.entry.role = "launch"))

\* a strategy that runs nothing leaves the record of attempts as it is
NoAttempt == UNCHANGED <<last, spawned, fgFailed, located>>

\* what a command meets when it is run: nothing is run when the lookup fails,
\* or in a dry run
ProcChoices(name, pathVar, fs) ==
    IF dryRun \/ ForMatchingPath(name, pathVar, fs) = <<>> THEN {"none"}
    ELSE ProcBehaviours

\* Result::or_else in the chain: where the call goes after a strategy's result
\* (mutant: the next strategy is entered whatever the result)
OrElseAlways(r, next) == next

\* mutant: the chain ends with the desktop-specific step
OrElseNoLastResort(r, next) ==
    IF r.ok \/ next = "x_www_browser" THEN "done" ELSE next

OrElse(r, next) == IF r.ok THEN "done" ELSE next

\* the final map_err: every error becomes NotFound (mutant: the error is kept)
MapErrKeepsKind(r) == r

MapErr(r) == IF r.ok THEN r ELSE Err("NotFound")

\* mutant: the chain is entered whatever browser is asked for
OpenBrowserInternalAnyBrowser ==
    /\ pc = "open"
    /\ platform \in UnixPlatforms
    /\ pc' = "browser_env"
    /\ res' = res
    /\ UNCHANGED <<callVars, envBrowser, cands, xdg, desktop, openers,
                   historyVars, tplVars, fnVars>>

\* unix.rs:28-40
OpenBrowserInternal ==
    /\ pc = "open"
    /\ platform \in UnixPlatforms
    /\ IF browser = "Default"
       THEN /\ pc' = "browser_env"
            /\ res' = res
       ELSE /\ pc' = "done"
            /\ res' = Err("NotFound")
    /\ UNCHANGED <<callVars, envBrowser, cands, xdg, desktop, openers,
                   historyVars, tplVars, fnVars>>

\* unix.rs:94-96: BROWSER is read (unset reads as empty) and split on ':'
BrowserEnvRead ==
    /\ pc = "browser_env"
    /\ \E b \in BrowserEnvValues :
          /\ envBrowser' = b
          /\ cands' = StrSplit(IF b.set THEN b.value ELSE <<>>, ":")
    /\ tried' = Append(tried, "browser_env")
    /\ runs' = <<>>
    /\ pc' = "browser_cand"
    /\ UNCHANGED <<callVars, res, xdg, desktop, openers, last, spawned,
                   fgFailed, located, tplVars, fnVars>>

\* unix.rs:98: an empty candidate is passed over
BrowserEnvSkipEmpty ==
    /\ pc = "browser_cand"
    /\ cands # <<>>
    /\ Head(cands) = <<>>
    /\ cands' = Tail(cands)
    /\ UNCHANGED <<callVars, pc, res, envBrowser, xdg, desktop, openers,
                   historyVars, tplVars, fnVars>>

\* unix.rs:105-106: cmdarr[0] of a candidate without any token aborts the call
BrowserEnvAbort ==
    /\ pc = "browser_cand"
    /\ cands # <<>>
    /\ Head(cands) # <<>>
    /\ BrowserCmdarr(Head(cands), target) = <<>>
    /\ pc' = "panic"
    /\ UNCHANGED <<callVars, res, envBrowser, cands, xdg, desktop, openers,
                   historyVars, tplVars, fnVars>>

\* unix.rs:101-121: one candidate is looked up and run; success returns Ok(())
BrowserEnvTry ==
    /\ pc = "browser_cand"
    /\ cands # <<>>
    /\ Head(cands) # <<>>
    /\ BrowserCmdarr(Head(cands), target) # <<>>
    /\ LET name == BrowserCmdarr(Head(cands), target)[1]
           args == BrowserCmdArgs(Head(cands), target)
       IN  \E pathVar \in PathValues : \E fs \in FsViews(name, pathVar) :
           \E proc \in ProcChoices(name, pathVar, fs) :
              LET a == Attempt(name, args, "auto", dryRun, pathVar, fs, proc)
              IN  /\ Noted(runs, a)
                  /\ IF a.res.ok
                     THEN /\ res' = Ok
                          /\ pc' = OrElse(Ok, "haiku")
                     ELSE /\ res' = res
                          /\ pc' = pc
                  /\ cands' = Tail(cands)
    /\ UNCHANGED <<callVars, envBrowser, xdg, desktop, openers, tried, tplVars, fnVars>>

\* unix.rs:123-126: no candidate succeeded
BrowserEnvExhausted ==
    /\ pc = "browser_cand"
    /\ cands = <<>>
    /\ res' = Err("NotFound")
    /\ pc' = OrElse(Err("NotFound"), "haiku")
    /\ UNCHANGED <<callVars, envBrowser, cands, xdg, desktop, openers,
                   historyVars, tplVars, fnVars>>

\* unix.rs:52, 253-259: `open` is tried on Haiku only
TryHaiku ==
    /\ pc = "haiku"
    /\ tried' = Append(tried, "haiku")
    /\ IF platform = "haiku"
       THEN \E pathVar \in PathValues : \E fs \in FsViews(Txt.open, pathVar) :
            \E proc \in ProcChoices(Txt.open, pathVar, fs) :
               LET a == Attempt(Txt.open, <<target>>, "auto", dryRun, pathVar,
                                fs, proc)
               IN  /\ Noted(<<>>, a)
                   /\ res' = a.res
                   /\ pc' = OrElse(a.res, "xdg")
       ELSE /\ runs' = <<>>
            /\ last' = NoEntry
            /\ res' = Err("NotFound")
            /\ pc' = OrElse(Err("NotFound"), "xdg")
            /\ UNCHANGED <<spawned, fgFailed, located>>
    /\ envBrowser' = Unset
    /\ cands' = <<>>
    /\ UNCHANGED <<callVars, xdg, desktop, openers, tplVars, fnVars>>

\* unix.rs:265-283, 288: xdg-settings is looked up and run for its output,
\* whatever options.dry_run says; the name it prints is trimmed
TryXdg ==
    /\ pc = "xdg"
    /\ tried' = Append(tried, "xdg")
    /\ \E pathVar \in PathValues : \E fs \in FsViews(Txt.xdg_settings, pathVar) :
          LET found == ForMatchingPath(Txt.xdg_settings, pathVar, fs)
          IN  IF found = <<>>
              THEN /\ runs' = <<[name |-> Txt.xdg_settings, ok |-> FALSE]>>
                   /\ last' = NoEntry
                   /\ res' = Err("NotFound")
                   /\ pc' = OrElse(Err("NotFound"), "desktop")
                   /\ xdg' = NoXdg
                   /\ UNCHANGED <<spawned, fgFailed, located>>
              ELSE \E out \in XdgSettingsRuns :
                     LET ran == out.proc \notin SpawnFailures
                         browser_name == IF ran /\ out.utf8
                                         THEN StrTrim(out.text) ELSE <<>>
                         query == [role |-> "query", name |-> Txt.xdg_settings,
                                   found |-> TRUE, prog |-> found[1],
                                   args |-> <<Txt.get, Txt.default_web_browser>>,
                                   bg |-> FALSE, real |-> TRUE,
                                   proc |-> out.proc]
                     IN  /\ Noted(<<>>, [res |-> IF ran THEN Ok
                                                 ELSE Err(SpawnErrorKind(out.proc)),
                                         entry |-> query])
                         /\ IF browser_name = <<>>
                            THEN /\ res' = Err("NotFound")
                                 /\ pc' = OrElse(Err("NotFound"), "desktop")
                                 /\ xdg' = NoXdg
                            ELSE /\ res' = res
                                 /\ pc' = "xdg_dir"
                                 /\ \E e \in XdgEnvs :
                                       xdg' = [name |-> browser_name,
                                               dirs |-> GetXdgDirs(e),
                                               config_found |-> FALSE,
                                               terminal |-> FALSE]
    /\ UNCHANGED <<callVars, envBrowser, cands, desktop, openers, tplVars, fnVars>>

\* unix.rs:303-310: success, or an error other than NotFound, is returned from
\* inside the loop (mutant: only success is)
XdgEndsSearchOnSuccessOnly(r) == r.ok

XdgEndsSearch(r) == r.ok \/ r.kind # "NotFound"

\* unix.rs:303-310: a NotFound from the configuration lets the loop go on;
\* `terminal` is the Terminal value of the entry whose command ran last
XdgContinue(terminal) ==
    /\ xdg' = [xdg EXCEPT !.dirs = Tail(@), !.config_found = TRUE,
                          !.terminal = terminal]
    /\ UNCHANGED <<pc, res>>

\* unix.rs:302, 307-309: success, or an error other than NotFound, is returned
XdgReturn(r, terminal) ==
    /\ xdg' = [xdg EXCEPT !.config_found = TRUE, !.terminal = terminal]
    /\ res' = r
    /\ pc' = OrElse(r, "desktop")

\* unix.rs:288-313 with open_using_xdg_config (325-384): one directory
TryXdgDir ==
    /\ pc = "xdg_dir"
    /\ xdg.dirs # <<>>
    /\ \E config \in ConfigLookups(Head(xdg.dirs), xdg.name) :
          IF ~MetadataOk(config.status)
          THEN /\ xdg' = [xdg EXCEPT !.dirs = Tail(@)]
               /\ UNCHANGED <<pc, res, runs>>
               /\ NoAttempt
          ELSE \E read \in ConfigReads(config.status) :
                 LET entry == ParseDesktopEntry(read.lines)
                     cmdarr == IF entry.cmdline = <<>> THEN <<>>
                               ELSE SplitAsciiWhitespace(entry.cmdline[1])
                 IN  IF read.kind = "dir"
                     THEN /\ pc' = "hang"
                          /\ xdg' = [xdg EXCEPT !.config_found = TRUE]
                          /\ UNCHANGED <<res, runs>>
                          /\ NoAttempt
                     ELSE IF read.kind = "denied"
                     THEN /\ XdgReturn(Err("PermissionDenied"), xdg.terminal)
                          /\ UNCHANGED runs
                          /\ NoAttempt
                     ELSE IF entry.hidden \/ entry.cmdline = <<>>
                     THEN /\ XdgContinue(xdg.terminal)
                          /\ UNCHANGED runs
                          /\ NoAttempt
                     ELSE IF cmdarr = <<>>
                     THEN /\ pc' = "panic"
                          /\ xdg' = [xdg EXCEPT !.config_found = TRUE]
                          /\ UNCHANGED <<res, runs>>
                          /\ NoAttempt
                     ELSE \E pathVar \in PathValues :
                          \E fs \in FsViews(cmdarr[1], pathVar) :
                          \E proc \in ProcChoices(cmdarr[1], pathVar, fs) :
                             LET a == Attempt(cmdarr[1],
                                              XdgCmdArgs(cmdarr, target),
                                              IF entry.requires_terminal
                                              THEN "fg" ELSE "bg",
                                              dryRun, pathVar, fs, proc)
                             IN  /\ Noted(runs, a)
                                 /\ IF XdgEndsSearch(a.res)
                                    THEN XdgReturn(a.res,
                                                   entry.requires_terminal)
                                    ELSE XdgContinue(entry.requires_terminal)
    /\ UNCHANGED <<callVars, envBrowser, cands, desktop, openers, tried, tplVars, fnVars>>

\* unix.rs:315-319: no directory gave a result
XdgExhausted ==
    /\ pc = "xdg_dir"
    /\ xdg.dirs = <<>>
    /\ res' = IF xdg.config_found THEN Err("Other") ELSE Err("NotFound")
    /\ pc' = OrElse(res', "desktop")
    /\ UNCHANGED <<callVars, envBrowser, cands, xdg, desktop, openers,
                   historyVars, tplVars, fnVars>>

\* unix.rs:56-78: the desktop is guessed and its arm chosen; try_wsl and
\* try_flatpak return NotFound for a scheme they do not handle, and an unknown
\* desktop hands the error of try_xdg on
DesktopGuess ==
    /\ pc = "desktop"
    /\ tried' = Append(tried, "desktop")
    /\ runs' = <<>>
    /\ xdg' = NoXdg
    /\ \E e \in DesktopEnvs :
          LET de == GuessDesktopEnv(platform, e)
              list == IF de = Txt.wsl
                      THEN (IF IsHttp(Scheme(target))
                            THEN WslOpeners(target) ELSE <<>>)
                      ELSE IF de = Txt.flatpak
                      THEN (IF IsHttp(Scheme(target))
                            THEN FlatpakOpeners(target) ELSE <<>>)
                      ELSE DesktopOpeners(de, target)
          IN  /\ desktop' = [env |-> e, name |-> de]
              /\ openers' = list
              /\ IF list # <<>>
                 THEN /\ pc' = "desktop_opener"
                      /\ res' = res
                 ELSE IF de = Txt.wsl /\ Scheme(target) = Txt.file
                 THEN /\ pc' = "wsl_file"
                      /\ res' = res
                 ELSE IF de = Txt.unknown
                 THEN /\ pc' = OrElse(res, "x_www_browser")
                      /\ res' = res
                 ELSE /\ pc' = OrElse(Err("NotFound"), "x_www_browser")
                      /\ res' = Err("NotFound")
    /\ last' = NoEntry
    /\ UNCHANGED <<spawned, fgFailed, located>>
    /\ UNCHANGED <<callVars, envBrowser, cands, tplVars, fnVars>>

\* unix.rs:57-71, 198-213, 242: the next opener of the arm; the arm's result
\* is the first success, or the error of its last opener
DesktopOpener ==
    /\ pc = "desktop_opener"
    /\ openers # <<>>
    /\ LET o == Head(openers)
       IN  \E pathVar \in PathValues : \E fs \in FsViews(o.name, pathVar) :
           \E proc \in ProcChoices(o.name, pathVar, fs) :
              LET a == Attempt(o.name, o.args, "auto", dryRun, pathVar, fs, proc)
              IN  /\ Noted(runs, a)
                  /\ res' = a.res
                  /\ IF a.res.ok
                     THEN /\ pc' = OrElse(a.res, "x_www_browser")
                          /\ openers' = openers
                     ELSE /\ openers' = Tail(openers)
                          /\ pc' = IF Tail(openers) = <<>>
                                   THEN OrElse(a.res, "x_www_browser")
                                   ELSE pc
    /\ UNCHANGED <<callVars, envBrowser, cands, xdg, desktop, tried, tplVars, fnVars>>

\* unix.rs:220-230 with get_wsl_win_config (591-629), the query of the
\* registered browser (632-686) and parse_wsl_cmdline (690-711): the query runs
\* as a real process whatever options.dry_run says, and the program it names
\* is handed to run_command without a test that it exists
TryWslFile ==
    /\ pc = "wsl_file"
    /\ \E wc \in WslConfigs :
          IF wc = "no_system32"
          THEN /\ res' = Err("NotFound")
               /\ pc' = OrElse(Err("NotFound"), "x_www_browser")
               /\ UNCHANGED runs
               /\ NoAttempt
          ELSE \E out \in SpawnFailures \cup WslQueryOutputs :
               \E exists \in BOOLEAN :
               \E proc \in IF dryRun THEN {"none"}
                           ELSE IF exists THEN ProcBehaviours
                           ELSE {"spawn_NotFound"} :
                  LET qname == IF wc = "powershell" THEN Txt.powershell_exe
                               ELSE Txt.cmd_exe
                      ran == out \notin SpawnFailures
                      r == IF ~ran THEN Err(SpawnErrorKind(out))
                           ELSE IF out \in {"empty", "other_drive"}
                           THEN Err("NotFound")
                           ELSE IF out = "no_distro_name" THEN Err("Other")
                           ELSE RunCommand(TRUE, dryRun, proc)
                      launched == ran /\ out = "command"
                  IN  /\ res' = r
                      /\ pc' = OrElse(r, "x_www_browser")
                      /\ runs' = Append(runs, [name |-> qname, ok |-> r.ok])
                      /\ last' = Outcome(
                                  [role |-> IF launched THEN "launch" ELSE "query",
                                   name |-> qname, found |-> launched /\ exists,
                                   prog |-> <<>>, args |-> <<>>,
                                   bg |-> TRUE, real |-> ~launched \/ ~dryRun,
                                   proc |-> IF launched THEN proc
                                            ELSE IF ran THEN "exit_zero" ELSE out],
                                  r)
                      /\ spawned' = (spawned \/ ran)
                      /\ fgFailed' = fgFailed
                      /\ located' = (located \/ (launched /\ exists))
    /\ UNCHANGED <<callVars, envBrowser, cands, xdg, desktop, openers, tried,
                   tplVars, fnVars>>


\* unix.rs:80-89: x-www-browser, then every error is mapped to NotFound
TryXWwwBrowser ==
    /\ pc = "x_www_browser"
    /\ tried' = Append(tried, "x_www_browser")
    /\ \E pathVar \in PathValues : \E fs \in FsViews(Txt.x_www_browser, pathVar) :
       \E proc \in ProcChoices(Txt.x_www_browser, pathVar, fs) :
          LET a == Attempt(Txt.x_www_browser, <<target>>, "auto", dryRun,
                           pathVar, fs, proc)
          IN  /\ Noted(<<>>, a)
              /\ res' = MapErr(a.res)
    /\ pc' = "done"
    /\ UNCHANGED <<callVars, envBrowser, cands, xdg, desktop, openers, tplVars, fnVars>>

\* windows.rs:28-80: a dry run returns at once; else the command registered for
\* http is queried, split into tokens and run in the background
WindowsOpenBrowserInternal ==
    /\ pc = "open"
    /\ platform = "windows"
    /\ pc' = "done"
    /\ IF browser # "Default"
       THEN /\ res' = Err("NotFound")
            /\ UNCHANGED historyVars
       ELSE IF dryRun
       THEN /\ res' = Ok
            /\ UNCHANGED historyVars
       ELSE IF native \in {"assoc_fails", "assoc_not_unicode"}
       THEN /\ res' = Err("Other")
            /\ UNCHANGED historyVars
       ELSE IF native = "assoc_no_tokens"
       THEN /\ res' = Err("NotFound")
            /\ UNCHANGED historyVars
       ELSE \E proc \in IF native = "assoc_exe_present" THEN ProcBehaviours
                        ELSE {"spawn_NotFound"} :
               LET a == [res |-> RunCommand(TRUE, dryRun, proc),
                         entry |-> [role |-> "launch", name |-> Txt.http,
                                    found |-> native = "assoc_exe_present",
                                    prog |-> <<>>, args |-> <<>>, bg |-> TRUE,
                                    real |-> TRUE, proc |-> proc]]
               IN  /\ Noted(runs, a)
                   /\ res' = a.res
                   /\ UNCHANGED tried
    /\ UNCHANGED <<callVars, envBrowser, cands, xdg, desktop, openers, tplVars, fnVars>>

\* macos.rs:18-109: the application URL of the browser, then in a dry run the
\* test that its path is a directory, else LSOpenFromURLSpec and its status
MacosOpenBrowserInternal ==
    /\ pc = "open"
    /\ platform = "macos"
    /\ pc' = "done"
    /\ IF browser \notin MacosBrowsers
       THEN /\ res' = Err("NotFound")
            /\ UNCHANGED historyVars
       ELSE IF native = "no_cfurl"
       THEN /\ res' = Err("Other")
            /\ UNCHANGED historyVars
       ELSE IF dryRun
       THEN /\ res' = IF native = "app_dir" THEN Ok
                      ELSE IF native = "app_absent" THEN Err("NotFound")
                      ELSE Err("Other")
            /\ located' = (native = "app_dir")
            /\ UNCHANGED <<tried, runs, last, spawned, fgFailed>>
       ELSE \E status \in IF native = "app_dir" THEN LsStatuses
                          ELSE LsStatuses \ {0} :
               /\ res' = IF status = 0 THEN Ok ELSE Err(LSErrorKind(status))
               /\ spawned' = TRUE
               /\ located' = (native = "app_dir")
               /\ UNCHANGED <<tried, runs, last, fgFailed>>
    /\ UNCHANGED <<callVars, envBrowser, cands, xdg, desktop, openers, tplVars, fnVars>>

\* android.rs:31-36: every error of try_for_termux becomes NotFound
TermuxMapErr(r) == IF r.ok THEN r ELSE Err("NotFound")

\* android.rs:8-95 with try_for_termux (101-128): a dry run returns at once;
\* else the intent is started through JNI, or termux-open is run when there is
\* no JVM, every error of that being mapped to NotFound
AndroidOpenBrowserInternal ==
    /\ pc = "open"
    /\ platform = "android"
    /\ pc' = "done"
    /\ IF browser # "Default"
       THEN /\ res' = Err("NotFound")
            /\ UNCHANGED historyVars
       ELSE IF dryRun
       THEN /\ res' = Ok
            /\ UNCHANGED historyVars
       ELSE IF native = "termux"
       THEN \E proc \in ProcBehaviours :
               /\ res' = TermuxMapErr(RunCommand(FALSE, dryRun, proc))
               /\ spawned' = (proc \in ChildExits)
               /\ fgFailed' = (proc \in {"exit_nonzero", "exit_signal"})
               /\ located' = (proc \in ChildExits)
               /\ UNCHANGED <<tried, runs, last>>
       ELSE /\ res' = CASE native = "jvm_handler" -> Ok
                        [] native = "jvm_no_intent_class" -> Err("NotFound")
                        [] native = "bare" -> TermuxMapErr(Err("Other"))
                        [] OTHER -> Err("Other")
            /\ spawned' = (native \in {"jvm_handler", "jvm_no_handler"})
            /\ located' = (native = "jvm_handler")
            /\ UNCHANGED <<tried, runs, last, fgFailed>>
    /\ UNCHANGED <<callVars, envBrowser, cands, xdg, desktop, openers, tplVars, fnVars>>

Next ==
    \/ OpenBrowserInternal
    \/ WindowsOpenBrowserInternal
    \/ MacosOpenBrowserInternal
    \/ AndroidOpenBrowserInternal
    \/ BrowserEnvRead
    \/ BrowserEnvSkipEmpty
    \/ BrowserEnvAbort
    \/ BrowserEnvTry
    \/ BrowserEnvExhausted
    \/ TryHaiku
    \/ TryXdg
    \/ TryXdgDir
    \/ XdgExhausted
    \/ DesktopGuess
    \/ DesktopOpener
    \/ TryWslFile
    \/ TryXWwwBrowser

Spec == Init /\ [][Next]_vars


(***************************************************************************)
(* SpecTpl: the expansion of one BROWSER candidate, for every candidate    *)
(* and URL within the bounds.                                              *)
(***************************************************************************)
\* characters of a candidate: a letter, a blank and the three that make %s, %c, %%
TplChars == {"b", " ", "%", "s", "c"}
\* characters of a URL: a letter and the three that make %s, %c, %% (a URL of the
\* url crate holds no whitespace: it is percent-encoded)
UrlChars == {"u", "%", "s", "c"}

TplBrowsers == SeqsUpTo(TplChars, MaxTplLen) \ {<<>>}
TplUrls == {u \in SeqsUpTo(UrlChars, MaxUrlLen) : u # <<>> /\ u[1] = "u"}

ChainParked ==
    /\ platform = "linux"
    /\ native = "none"
    /\ browser = "Default"
    /\ target = <<>>
    /\ dryRun = FALSE
    /\ pc = "parked"
    /\ res = Pending
    /\ envBrowser = [set |-> FALSE, value |-> <<>>]
    /\ cands = <<>>
    /\ xdg = NoXdg
    /\ desktop = "none"
    /\ openers = <<>>
    /\ tried = <<>>
    /\ runs = <<>>
    /\ last = NoEntry
    /\ spawned = FALSE
    /\ fgFailed = FALSE
    /\ located = FALSE

TplInit ==
    /\ ChainParked
    /\ FnParked
    /\ tplPc = "start"
    /\ tplBrowser \in TplBrowsers
    /\ tplUrl \in TplUrls
    /\ tplCmdline = <<>>
    /\ tplCmdarr = <<>>
    /\ tplArgs = <<>>

\* lines 101-106: cmdline, cmdarr, and cmdarr[0], which aborts on no token
TplExpand ==
    /\ tplPc = "start"
    /\ tplCmdline' = BrowserCmdline(tplBrowser, tplUrl)
    /\ tplCmdarr' = BrowserCmdarr(tplBrowser, tplUrl)
    /\ tplPc' = IF tplCmdarr' = <<>> THEN "panic" ELSE "expanded"
    /\ UNCHANGED <<tplBrowser, tplUrl, tplArgs, chainVars, fnVars>>

\* lines 108-115: the closure builds the command for the executable found
TplBuild ==
    /\ tplPc = "expanded"
    /\ tplArgs' = BrowserCmdArgs(tplBrowser, tplUrl)
    /\ tplPc' = "built"
    /\ UNCHANGED <<tplBrowser, tplUrl, tplCmdline, tplCmdarr, chainVars, fnVars>>

TplNext == TplExpand \/ TplBuild

SpecTpl == TplInit /\ [][TplNext]_vars

(***************************************************************************)
(* Claims about the expansion of a BROWSER candidate (SpecTpl).            *)
(***************************************************************************)
\* the number of places where pat occurs in s
CountOcc(s, pat) == Cardinality({i \in 1..Len(s) : StartsWithAt(s, i, pat)})

\* the number of places where pat occurs in the tokens of a token stream
RECURSIVE CountOccTokens(_, _)
CountOccTokens(tokens, pat) ==
    IF tokens = <<>> THEN 0
    ELSE CountOcc(Head(tokens), pat) + CountOccTokens(Tail(tokens), pat)

\* %s, %c and %% expanded in one left-to-right pass over the template: no text
\* that a substitution produced is looked at again
RECURSIVE SinglePassFrom(_, _, _)
SinglePassFrom(t, i, url) ==
    IF i > Len(t) THEN <<>>
    ELSE IF StartsWithAt(t, i, PctS) THEN url \o SinglePassFrom(t, i + 2, url)
    ELSE IF StartsWithAt(t, i, PctC) THEN <<":">> \o SinglePassFrom(t, i + 2, url)
    ELSE IF StartsWithAt(t, i, PctPct) THEN <<"%">> \o SinglePassFrom(t, i + 2, url)
    ELSE <<t[i]>> \o SinglePassFrom(t, i + 1, url)

\* C6: for every candidate template that contains %s, the token stream of the
\* command built (program, then arguments) contains the URL verbatim exactly
\* once, and the URL is not appended as a trailing argument as well.
C6_UrlExactlyOnce ==
    (tplPc = "built" /\ StrContains(tplBrowser, PctS)) =>
        /\ CountOccTokens(<<tplCmdarr[1]>> \o tplArgs, tplUrl) = 1
        /\ Len(tplArgs) = Len(tplCmdarr) - 1

\* C7: for every candidate template without %s, the arguments of the command
\* built are the arguments that come from the template (its tokens after the
\* first, with %c and %% expanded), followed by the URL as one argument.
C7_UrlAppendedOnce ==
    (tplPc = "built" /\ ~StrContains(tplBrowser, PctS)) =>
        LET fromTpl == Tail(SplitAsciiWhitespace(
                StrReplace(StrReplace(tplBrowser, PctC, <<":">>), PctPct, <<"%">>)))
        IN  /\ Len(tplArgs) = Len(fromTpl) + 1
            /\ tplArgs[Len(tplArgs)] = tplUrl
            /\ SubSeq(tplArgs, 1, Len(fromTpl)) = fromTpl

\* C7 witness: a template without %s that has an argument of its own, built
\* for a URL that itself holds the text %s
C7_Witness ==
    /\ tplPc = "built"
    /\ ~StrContains(tplBrowser, PctS)
    /\ StrContains(tplUrl, PctS)
    /\ Len(tplArgs) = 2
    /\ tplArgs[2] = tplUrl

\* C8: the %c and %% substitutions are independent of the order in which they
\* and %s are applied and never expand text that a substitution produced: the
\* command line is the template with %s, %c and %% each expanded once, in place
\* (so %s, %c, %% inside the URL stay as they are and %%s gives the text %s).
C8_NoDoubleSubstitution ==
    tplPc \in {"expanded", "built"} =>
        tplCmdline = SinglePassFrom(tplBrowser, 1, tplUrl)

(***************************************************************************)
(* Claims about the call (Spec).                                           *)
(***************************************************************************)
\* the strategies of open_browser_default, in the order of its chain
ChainOrder == <<"browser_env", "haiku", "xdg", "desktop", "x_www_browser">>

IsPrefix(s, t) == Len(s) <= Len(t) /\ SubSeq(t, 1, Len(s)) = s

UnixDefault == platform \in UnixPlatforms /\ browser = "Default"

\* a foreground child that ended with a failure
ForegroundFailure(e) ==
    e.real /\ ~e.bg /\ e.proc \in {"exit_nonzero", "exit_signal"}

\* C1: the strategies are entered in the fixed order BROWSER, Haiku's open,
\* XDG, desktop openers, x-www-browser; a strategy is entered only when the
\* one before it has returned an error; a success ends the call at once, so
\* no later strategy is entered; and off Haiku the Haiku step runs nothing.
C1_FixedOrder ==
    /\ [](IsPrefix(tried, ChainOrder) /\ (res.ok => pc = "done"))
    /\ [][/\ (tried' # tried /\ tried # <<>>) => (~res.ok /\ res.kind # "pending")
          /\ (pc = "haiku" /\ platform # "haiku") =>
                (runs' = <<>> /\ last' = NoEntry /\ spawned' = spawned)]_vars

\* the second strategy failed, the third succeeded, the fourth was not entered
C1_Witness ==
    /\ pc = "done"
    /\ res.ok
    /\ tried = <<"browser_env", "haiku", "xdg">>
    /\ last.role = "launch"

\* C2: when the chain of open_browser_default is exhausted the error returned
\* is of kind NotFound, whatever the kinds of the strategies' errors.
C2_ExhaustedIsNotFound ==
    (UnixDefault /\ pc = "done" /\ ~res.ok) => res.kind = "NotFound"

\* the last strategy's error was PermissionDenied, and NotFound is returned
C2_Witness ==
    /\ UnixDefault
    /\ pc = "done"
    /\ ~res.ok
    /\ tried = ChainOrder
    /\ last.proc = "spawn_PermissionDenied"

\* C3 as stated: after a foreground child ended with a failure and no strategy
\* succeeded, the error returned is of kind Other.
C3_ForegroundFailureIsOther ==
    (UnixDefault /\ pc = "done" /\ ~res.ok /\ fgFailed) => res.kind = "Other"

\* C3: a foreground child that ended with a failure makes its run count as
\* failed, with the kind Other where try_xdg hands the error on; but when no
\* strategy succeeds the error returned to the caller is of kind NotFound.
C3_ForegroundFailureIsNotFound ==
    /\ (UnixDefault /\ pc = "done" /\ ~res.ok /\ fgFailed) =>
            res.kind = "NotFound"
    /\ (UnixDefault /\ runs # <<>> /\ ForegroundFailure(last)) =>
            ~runs[Len(runs)].ok
    /\ (UnixDefault /\ pc = "desktop" /\ ForegroundFailure(last)) =>
            res = Err("Other")

\* a terminal program of a desktop entry exited with a failure, and the call
\* ended with an error
C3_Witness ==
    /\ UnixDefault
    /\ pc = "done"
    /\ ~res.ok
    /\ fgFailed
    /\ tried = ChainOrder

\* C4: with dry_run set no process is started and no native launch call is
\* made, on any path of the call.
C4_DryRunStartsNothing == dryRun => ~spawned

\* a valid handler exists for the call: on Unix an executable was found by a
\* lookup of the chain, elsewhere the platform holds one
HandlerExists ==
    IF platform \in UnixPlatforms THEN located
    ELSE native \in {"assoc_exe_present", "app_dir", "jvm_handler", "termux"}

\* C5: a dry run of the default browser returns success if and only if a valid
\* handler exists, whether or not launching it would succeed.
C5_DryRunIffHandlerExists ==
    (dryRun /\ browser = "Default" /\ pc = "done") => (res.ok <=> HandlerExists)

\* the candidates of BROWSER that are not empty
NonEmptyCands(cs) == SelectSeq(cs, LAMBDA c : c # <<>>)

\* the candidates of BROWSER the loop has taken so far
CandsTaken ==
    LET all == StrSplit(IF envBrowser.set THEN envBrowser.value ELSE <<>>, ":")
    IN  SubSeq(all, 1, Len(all) - Len(cands))

\* C9: try_with_browser_env takes the candidates of BROWSER left to right and
\* runs the non-empty ones in that order; only the last run can have succeeded,
\* and then the call returns success with the later candidates untried; the
\* strategy never aborts, and when the candidates are exhausted its result is
\* an error of kind NotFound.
C9_CandidatesLeftToRight ==
    (UnixDefault /\ tried = <<"browser_env">>) =>
        /\ pc \in {"browser_cand", "haiku", "done"}
        /\ Len(runs) = Len(NonEmptyCands(CandsTaken))
        /\ \A i \in 1..Len(runs) :
              /\ runs[i].name = BrowserCmdarr(NonEmptyCands(CandsTaken)[i], target)[1]
              /\ runs[i].ok => (i = Len(runs) /\ pc = "done" /\ res = Ok)
        /\ pc = "done" => (runs # <<>> /\ runs[Len(runs)].ok)
        /\ pc = "haiku" => (cands = <<>> /\ res = Err("NotFound"))

\* the BROWSER value of the end-to-end scenario, after its first candidate ran
\* as a real process that exited with a failure status
C10_Scenario ==
    /\ UnixDefault
    /\ ~dryRun
    /\ target = <<"h", "t", "t", "p", ":", "/", "/", "e", "x", "a", "m", "p",
        "l", "e", ".", "c", "o", "m">>
    /\ envBrowser = SetTo(<<"/", "b", "i", "n", "/", "f", "a", "l", "s", "e",
        ":", "/", "u", "s", "r", "/", "b", "i", "n", "/", "t", "r", "u", "e">>)
    /\ tried = <<"browser_env">>
    /\ last.prog = <<"/", "b", "i", "n", "/", "f", "a", "l", "s", "e">>
    /\ last.proc = "exit_nonzero"

\* C10 as stated: in the scenario the first candidate counts as failed because
\* of its exit status, and the second candidate is tried.
C10_FirstFailsSecondTried ==
    C10_Scenario => (~runs[1].ok /\ pc = "browser_cand")

\* C10: in the scenario /bin/false, not being a text browser, is started in
\* the background and counts as succeeded once it is started, whatever its
\* exit status; /usr/bin/true is not tried; the call returns success.
C10_FirstStartedWins ==
    C10_Scenario =>
        /\ last.bg
        /\ runs = <<[name |-> <<"/", "b", "i", "n", "/", "f", "a", "l", "s",
            "e">>, ok |-> TRUE]>>
        /\ cands = <<<<"/", "u", "s", "r", "/", "b", "i", "n", "/", "t", "r",
            "u", "e">>>>
        /\ pc = "done"
        /\ res = Ok

\* /bin/false was started and exited with status 1, and the call is over
C10_Witness == C10_Scenario /\ pc = "done"

\* a command of the chain that was looked up, found and handed to run_command
ChainCommand ==
    UnixDefault /\ tried # <<>> /\ last.role = "launch" /\ last.found
    /\ last.prog # <<>>

RunCommandCalled == last.role = "launch" /\ last.found /\ last.real

\* C12: run_command with dry_run = false succeeds exactly when, in the
\* background, the spawn succeeded (however the child exits later) or, in the
\* foreground, the child exited with status zero; a foreground child that
\* exits non-zero or is killed by a signal gives Other, a failed spawn gives
\* the spawn's own error
C12_RunCommandResult ==
    RunCommandCalled =>
        /\ last.res.ok <=> IF last.bg THEN last.proc \in ChildExits
                                      ELSE last.proc = "exit_zero"
        /\ (~last.bg /\ last.proc \in {"exit_nonzero", "exit_signal"})
               => last.res = Err("Other")
        /\ last.proc \in SpawnFailures
               => last.res = Err(SpawnErrorKind(last.proc))

\* a background child that exits non-zero after a successful spawn
C12_Witness ==
    /\ RunCommandCalled /\ last.bg /\ last.proc = "exit_nonzero"
    /\ last.res = Ok

\* --------------------------------------------------------------------------
\* SpecGuess: one call of guess_desktop_env (unix.rs:158-191), over the
\* environments it can meet
\* --------------------------------------------------------------------------

\* the values of the variables read, and the content of the marker file
\* /proc/sys/fs/binfmt_misc/WSLInterop (Unset: the file cannot be read)
GuessContainers == {Unset, SetTo(<<"f", "l", "a", "t", "p", "a", "k">>), SetTo(<<
    "F", "l", "a", "t", "p", "a", "k">>),
                    SetTo(<<"d", "o", "c", "k", "e", "r">>)}
GuessCurrentDesktops == {Unset, SetTo(<<"G", "N", "O", "M", "E">>), SetTo(<<
    "u", "b", "u", "n", "t", "u", ":", "G", "N", "O", "M", "E">>),
                         SetTo(<<"X", "-", "C", "i", "n", "n", "a", "m", "o",
                             "n">>), SetTo(<<"K", "D", "E">>),
                         SetTo(<<"M", "A", "T", "E">>), SetTo(<<"X", "F",
                             "C", "E">>), SetTo(<<"s", "w", "a", "y">>)}
GuessSessions == {Unset, SetTo(<<"g", "n", "o", "m", "e">>), SetTo(<<"m",
    "a", "t", "e">>), SetTo(<<"x", "f", "c", "e">>),
                  SetTo(<<"p", "l", "a", "s", "m", "a">>)}
GuessKdeFull == {Unset, SetTo(<<"t", "r", "u", "e">>)}
GuessKdeVersion == {Unset, SetTo(<<"5">>)}
GuessInterops == {Unset, SetTo(<<"e", "n", "a", "b", "l", "e", "d", "\n">>), SetTo(<<
    "d", "i", "s", "a", "b", "l", "e", "d", "\n">>)}

GuessInit ==
    /\ ChainParked
    /\ TplParked
    /\ fnPc = "guess_desktop_env"
    /\ \E os \in UnixPlatforms, c \in GuessContainers,
          x \in GuessCurrentDesktops, d \in GuessSessions,
          kf \in GuessKdeFull, kv \in GuessKdeVersion, w \in GuessInterops :
            fnIn = [os |-> os, env |-> DesktopEnv(c, x, d, kf, kv, w)]
    /\ fnOut = [desktop |-> <<>>, marker_read |-> FALSE]

\* unix.rs:158-185: the tests before is_wsl() is called
GuessFromEnv ==
    /\ fnPc = "guess_desktop_env"
    /\ LET d == DesktopFromEnv(fnIn.env)
       IN  IF d # <<>>
           THEN /\ fnOut' = [fnOut EXCEPT !.desktop = d]
                /\ fnPc' = "guessed"
           ELSE /\ fnOut' = fnOut
                /\ fnPc' = "is_wsl"
    /\ UNCHANGED <<fnIn, chainVars, tplVars>>

\* unix.rs:130-147, 185-190: is_wsl() reads the marker file on Linux only
GuessIsWsl ==
    /\ fnPc = "is_wsl"
    /\ fnOut' = [desktop |-> IF IsWsl(fnIn.os, fnIn.env) THEN Txt.wsl
                             ELSE Txt.unknown,
                 marker_read |-> fnIn.os = "linux"]
    /\ fnPc' = "guessed"
    /\ UNCHANGED <<fnIn, chainVars, tplVars>>

GuessNext == GuessFromEnv \/ GuessIsWsl

SpecGuess == GuessInit /\ [][GuessNext]_vars

\* the variable is set and its value, in lower case, contains the word
EnvHas(v, word) == v.set /\ StrContains(ToAsciiLowercase(v.value), word)

\* C13: guess_desktop_env resolves the desktop by strict precedence: flatpak
\* (container equal to "flatpak" whatever the case), else gnome, else kde,
\* else mate, else xfce, else wsl when the interop marker says enabled, else
\* unknown; the marker file is read only when every earlier test is false,
\* and never on a system other than Linux
C13_DesktopPrecedence ==
    LET e == fnIn.env
        xcd == e.xdg_current_desktop
        ds == e.desktop_session
        flatpak == e.container.set
                   /\ ToAsciiLowercase(e.container.value) = Txt.flatpak
        gnome == \/ EnvHas(xcd, Txt.gnome) \/ EnvHas(xcd, Txt.cinnamon)
                 \/ EnvHas(ds, Txt.gnome)
        kde == \/ EnvHas(xcd, Txt.kde) \/ e.kde_full_session.set
               \/ e.kde_session_version.set
        mate == EnvHas(xcd, Txt.mate) \/ EnvHas(ds, Txt.mate)
        xfce == EnvHas(xcd, Txt.xfce) \/ EnvHas(ds, Txt.xfce)
        marker == e.wsl_interop.set
                  /\ StrContains(e.wsl_interop.value, Txt.enabled)
    IN  /\ fnPc = "guessed" =>
              fnOut.desktop = IF flatpak THEN Txt.flatpak
                              ELSE IF gnome THEN Txt.gnome
                              ELSE IF kde THEN Txt.kde
                              ELSE IF mate THEN Txt.mate
                              ELSE IF xfce THEN Txt.xfce
                              ELSE IF fnIn.os = "linux" /\ marker THEN Txt.wsl
                              ELSE Txt.unknown
        /\ fnOut.marker_read =>
              /\ fnIn.os = "linux"
              /\ ~flatpak /\ ~gnome /\ ~kde /\ ~mate /\ ~xfce

\* GNOME named by DESKTOP_SESSION wins over KDE named by XDG_CURRENT_DESKTOP,
\* and the marker file, though it says enabled, is not read
C13_Witness ==
    /\ fnPc = "guessed"
    /\ fnOut.desktop = Txt.gnome
    /\ EnvHas(fnIn.env.xdg_current_desktop, Txt.kde)
    /\ fnIn.os = "linux"
    /\ fnIn.env.wsl_interop = SetTo(<<"e", "n", "a", "b", "l", "e", "d", "\n">>)
    /\ ~fnOut.marker_read

\* the openers of a desktop as listed: program, then its fixed arguments
ListedOpeners(de) ==
    CASE de = Txt.gnome -> <<<<<<"g", "i", "o">>, <<"o", "p", "e", "n">>>>, <<<<
        "g", "v", "f", "s", "-", "o", "p", "e", "n">>>>,
                             <<<<"g", "n", "o", "m", "e", "-", "o", "p", "e",
                                 "n">>>>>>
      [] de = Txt.kde -> <<<<<<"k", "d", "e", "-", "o", "p", "e", "n">>>>, <<<<
          "k", "d", "e", "-", "o", "p", "e", "n", "5">>>>,
                           <<<<"k", "f", "m", "c", "l", "i", "e", "n", "t">>, <<
                               "n", "e", "w", "T", "a", "b">>>>>>
      [] de = Txt.mate -> <<<<<<"g", "i", "o">>, <<"o", "p", "e", "n">>>>, <<<<
          "g", "v", "f", "s", "-", "o", "p", "e", "n">>>>,
                            <<<<"m", "a", "t", "e", "-", "o", "p", "e", "n">>>>>>
      [] de = Txt.xfce -> <<<<<<"e", "x", "o", "-", "o", "p", "e", "n">>>>, <<<<
          "g", "i", "o">>, <<"o", "p", "e", "n">>>>,
                            <<<<"g", "v", "f", "s", "-", "o", "p", "e", "n">>>>>>

\* the call is in the desktop-specific step of one of the four desktops
InDesktopStep ==
    /\ UnixDefault /\ tried # <<>> /\ tried[Len(tried)] = "desktop"
    /\ desktop.name \in {Txt.gnome, Txt.kde, Txt.mate, Txt.xfce}

\* C14: in the desktop-specific step the openers are tried in the listed
\* order, each only after the ones before it failed, the first that succeeds
\* ends the call with success, and the step is left with an error only after
\* all three failed; with XDG_CURRENT_DESKTOP=KDE, kde-open and kde-open5
\* failing and kfmclient present the command is `kfmclient newTab <url>`
C14_OpenersInListedOrder ==
    InDesktopStep =>
        LET listed == ListedOpeners(desktop.name)
            n == Len(runs)
        IN  /\ n <= Len(listed)
            /\ \A i \in 1..n : runs[i].name = listed[i][1]
            /\ \A i \in 1..(n - 1) : ~runs[i].ok
            /\ (n > 0 /\ last.found) =>
                  /\ last.name = listed[n][1]
                  /\ last.args = Tail(listed[n]) \o <<target>>
            /\ (n > 0 /\ runs[n].ok) => (pc = "done" /\ res = Ok)
            /\ pc = "desktop_opener" => n < Len(listed)
            /\ pc \notin {"desktop_opener", "done"} =>
                  (n = Len(listed) /\ ~runs[n].ok)
            /\ (desktop.name = Txt.kde /\ n = 3 /\ last.found /\ runs[3].ok)
                  => /\ last.name = <<"k", "f", "m", "c", "l", "i", "e", "n",
                      "t">>
                     /\ last.args = <<<<"n", "e", "w", "T", "a", "b">>, target>>

\* XDG_CURRENT_DESKTOP=KDE, kde-open and kde-open5 not found, kfmclient
\* started with `newTab <url>`
C14_Witness ==
    /\ InDesktopStep
    /\ desktop.env.xdg_current_desktop = SetTo(<<"K", "D", "E">>)
    /\ Len(runs) = 3 /\ ~runs[1].ok /\ ~runs[2].ok /\ runs[3].ok
    /\ last.name = <<"k", "f", "m", "c", "l", "i", "e", "n", "t">> /\ last.real /\ last.proc \in ChildExits
    /\ last.args = <<<<"n", "e", "w", "T", "a", "b">>, target>>
    /\ pc = "done"

\* --------------------------------------------------------------------------
\* SpecEntry: one call of open_using_xdg_config (unix.rs:325-384) on a desktop
\* file that can be opened and read, with options.dry_run = false
\* --------------------------------------------------------------------------

\* characters that take two bytes in UTF-8; all others of the model take one
TwoByteChars == {"é"}

\* str::len(): the length in bytes
RECURSIVE ByteLen(_)
ByteLen(s) ==
    IF s = <<>> THEN 0
    ELSE (IF Head(s) \in TwoByteChars THEN 2 ELSE 1) + ByteLen(Tail(s))

\* str::is_char_boundary(n)
IsCharBoundary(s, n) == \E k \in 0..Len(s) : ByteLen(SubSeq(s, 1, k)) = n

\* the number of characters in the first n bytes, n a character boundary
CharsIn(s, n) == CHOOSE k \in 0..Len(s) : ByteLen(SubSeq(s, 1, k)) = n

\* &s[a..b] with byte offsets: defined when both are character boundaries in
\* order
SliceOk(s, a, b) == a <= b /\ IsCharBoundary(s, a) /\ IsCharBoundary(s, b)

ByteSlice(s, a, b) == SubSeq(s, CharsIn(s, a) + 1, CharsIn(s, b))

\* common.rs:11-13: the locals of for_each_token before the loop; `start` is
\* <<>> for None and <<n>> for Some(n), `idx` counts the characters read,
\* `tokens` are the calls of op and `panic` tells that a slice aborted
TokStart == [idx |-> 0, start |-> <<>>, in_quotes |-> FALSE, tokens |-> <<>>,
             panic |-> FALSE]

\* op(&line[a..b]): the slice is taken by byte offsets
TokDeliver(line, st, a, b) ==
    IF SliceOk(line, a, b)
    THEN [st EXCEPT !.tokens = Append(@, [text |-> ByteSlice(line, a, b),
                                          from |-> a, to |-> b,
                                          quoted |-> st.in_quotes])]
    ELSE [st EXCEPT !.panic = TRUE]

\* mutant: an opening quote sets in_quotes without recording a start
TokStepQuoteWithoutStart(line, st) ==
    LET idx == st.idx + 1
        ch == line[idx]
        s == [st EXCEPT !.idx = idx]
    IN  IF ch = "\""
        THEN (IF st.start # <<>>
              THEN [TokDeliver(line, s, st.start[1], idx - 1)
                       EXCEPT !.start = <<>>, !.in_quotes = FALSE]
              ELSE [s EXCEPT !.in_quotes = TRUE])
        ELSE IF ch = " "
        THEN (IF ~st.in_quotes /\ st.start # <<>>
              THEN [TokDeliver(line, s, st.start[1], idx - 1)
                       EXCEPT !.start = <<>>]
              ELSE s)
        ELSE IF st.start = <<>> THEN [s EXCEPT !.start = <<idx - 1>>] ELSE s

\* common.rs:14-41: one turn of the loop over line.chars(); idx is a count of
\* characters but is used as a byte offset
TokStep(line, st) ==
    LET idx == st.idx + 1
        ch == line[idx]
        s == [st EXCEPT !.idx = idx]
    IN  IF ch = "\""
        THEN (IF st.start # <<>>
              THEN [TokDeliver(line, s, st.start[1], idx - 1)
                       EXCEPT !.start = <<>>, !.in_quotes = FALSE]
              ELSE [s EXCEPT !.start = <<idx>>, !.in_quotes = TRUE])
        ELSE IF ch = " "
        THEN (IF ~st.in_quotes /\ st.start # <<>>
              THEN [TokDeliver(line, s, st.start[1], idx - 1)
                       EXCEPT !.start = <<>>]
              ELSE s)
        ELSE IF st.start = <<>> THEN [s EXCEPT !.start = <<idx - 1>>] ELSE s

\* common.rs:42-44: the token still open at the end of the line
TokEnd(line, st) ==
    IF st.start # <<>> THEN TokDeliver(line, st, st.start[1], st.idx) ELSE st

RECURSIVE TokScan(_, _)
TokScan(line, st) ==
    IF st.panic THEN st
    ELSE IF st.idx = Len(line) THEN TokEnd(line, st)
    ELSE TokScan(line, TokStep(line, st))

\* common.rs:7-45, for_each_token: the tokens handed to op, in order
ForEachToken(line) ==
    LET r == TokScan(line, TokStart)
    IN  [k \in 1..Len(r.tokens) |-> r.tokens[k].text]

\* for_each_token aborts on a slice that is not on character boundaries
ForEachTokenPanics(line) == TokScan(line, TokStart).panic

\* the longest desktop file, in lines
MaxEntryLines == 4

\* the lines a desktop file is made of
EntryLines == {
    <<"E", "x", "e", "c", "=">>,
    <<"[", "D", "e", "s", "k", "t", "o", "p", " ", "E", "n", "t", "r", "y",
        "]">>,
    <<"[", "A", "n", "o", "t", "h", "e", "r", " ", "E", "n", "t", "r", "y",
        "]">>,
    <<"E", "x", "e", "c", "=", "/", "p", "a", "t", "h", "/", "t", "o", "/",
        "a", "p", "p", " ", "p", "1", " ", "%", "u", " ", "p", "3">>,
    <<"E", "x", "e", "c", "=", "/", "b", "i", "n", "/", "l", "s">>,
    <<"E", "x", "e", "c", "=", "\"", "/", "m", "y", " ", "a", "p", "p", "\"",
        " ", "%", "F">>,
    <<"H", "i", "d", "d", "e", "n", "=", "t", "r", "u", "e">>,
    <<"H", "i", "d", "d", "e", "n", "=", "f", "a", "l", "s", "e">>,
    <<"T", "e", "r", "m", "i", "n", "a", "l", "=", "t", "r", "u", "e">>,
    <<"#", "H", "i", "d", "d", "e", "n", "=", "t", "r", "u", "e">>
}

EntryFiles == UNION {[1..n -> EntryLines] : n \in 0..MaxEntryLines}

EntryUrl == <<"/", "t", "m", "p", "/", "t", "e", "s", "t", ".", "t", "x", "t">>

\* what the command meets when it is run
EntryProcs == {"exit_zero", "exit_nonzero", "spawn_NotFound"}

\* PATH during the call
EntryPath == SetTo(<<"/", "u", "s", "r", "/", "b", "i", "n">>)

EntryStart ==
    [entry |-> ParseDesktopEntry(<<>>), cmdarr |-> <<>>, name |-> <<>>,
     cmd |-> <<>>, bg |-> FALSE, res |-> Pending]

EntryInit ==
    /\ ChainParked
    /\ TplParked
    /\ fnPc = "open_using_xdg_config"
    /\ \E f \in EntryFiles : fnIn = [lines |-> f, url |-> EntryUrl]
    /\ fnOut = EntryStart

\* unix.rs:326-351: the loop over the lines
EntryParse ==
    /\ fnPc = "open_using_xdg_config"
    /\ fnOut' = [fnOut EXCEPT !.entry = ParseDesktopEntry(fnIn.lines)]
    /\ fnPc' = "parsed"
    /\ UNCHANGED <<fnIn, chainVars, tplVars>>

\* unix.rs:353-356
EntryHidden ==
    /\ fnPc = "parsed"
    /\ fnOut.entry.hidden
    /\ fnOut' = [fnOut EXCEPT !.res = Err("NotFound")]
    /\ fnPc' = "returned"
    /\ UNCHANGED <<fnIn, chainVars, tplVars>>

\* unix.rs:380-383
EntryNoExec ==
    /\ fnPc = "parsed"
    /\ ~fnOut.entry.hidden
    /\ fnOut.entry.cmdline = <<>>
    /\ fnOut' = [fnOut EXCEPT !.res = Err("NotFound")]
    /\ fnPc' = "returned"
    /\ UNCHANGED <<fnIn, chainVars, tplVars>>

\* unix.rs:358-379: the Exec value is split, its first token looked up, and
\* the command built and run
EntryRun ==
    /\ fnPc = "parsed"
    /\ ~fnOut.entry.hidden
    /\ fnOut.entry.cmdline # <<>>
    /\ LET cmdarr == SplitAsciiWhitespace(fnOut.entry.cmdline[1])
       IN  IF cmdarr = <<>>
           THEN /\ fnPc' = "panic"
                /\ fnOut' = fnOut
           ELSE \E fs \in FsViews(cmdarr[1], EntryPath) :
                \E proc \in IF ForMatchingPath(cmdarr[1], EntryPath, fs) = <<>>
                            THEN {"none"} ELSE EntryProcs :
                   LET a == Attempt(cmdarr[1], XdgCmdArgs(cmdarr, fnIn.url),
                                    IF fnOut.entry.requires_terminal
                                    THEN "fg" ELSE "bg",
                                    FALSE, EntryPath, fs, proc)
                   IN  /\ fnOut' = [fnOut EXCEPT
                                       !.cmdarr = cmdarr,
                                       !.name = cmdarr[1],
                                       !.cmd = IF a.entry.found
                                               THEN <<a.entry.prog>>
                                                    \o a.entry.args
                                               ELSE <<>>,
                                       !.bg = a.entry.bg,
                                       !.res = a.res]
                       /\ fnPc' = "returned"
    /\ UNCHANGED <<fnIn, chainVars, tplVars>>

EntryNext == EntryParse \/ EntryHidden \/ EntryNoExec \/ EntryRun

SpecEntry == EntryInit /\ [][EntryNext]_vars

\* line i of the file lies inside a [Desktop Entry] section: the nearest
\* section header above it is `[Desktop Entry]`, and it is no header itself
InsideSection(lines, i) ==
    /\ lines[i][1] # "["
    /\ \E j \in 1..(i - 1) :
          /\ lines[j] = <<"[", "D", "e", "s", "k", "t", "o", "p", " ", "E",
              "n", "t", "r", "y", "]">>
          /\ \A k \in (j + 1)..(i - 1) : lines[k][1] # "["

\* C15: a file with the line `Hidden=true` anywhere inside its [Desktop Entry]
\* section is treated as not found: NotFound is returned and nothing is run,
\* whatever the Exec line and whatever other Hidden line the section has
C15_HiddenTrueIsNotFound ==
    (/\ fnPc = "returned"
     /\ \E i \in 1..Len(fnIn.lines) :
           InsideSection(fnIn.lines, i) /\ fnIn.lines[i] = <<"H", "i", "d",
               "d", "e", "n", "=", "t", "r", "u", "e">>)
        => /\ fnOut.res = Err("NotFound")
           /\ fnOut.name = <<>>
           /\ fnOut.cmd = <<>>

\* the lines of the file that lie inside a [Desktop Entry] section
RECURSIVE SectionLinesFrom(_, _)
SectionLinesFrom(lines, i) ==
    IF i > Len(lines) THEN <<>>
    ELSE (IF InsideSection(lines, i) THEN <<lines[i]>> ELSE <<>>)
         \o SectionLinesFrom(lines, i + 1)

\* C16: the Exec, Hidden and Terminal values extracted depend only on the
\* lines inside the [Desktop Entry] section: they are the values extracted
\* from the file in which every other section, and every line before the
\* first header, is removed; so is the command that is looked up and run
C16_OnlySectionLinesCount ==
    fnPc # "open_using_xdg_config" =>
        LET only == ParseDesktopEntry(<<<<"[", "D", "e", "s", "k", "t", "o",
            "p", " ", "E", "n", "t", "r", "y", "]">>>>
                                      \o SectionLinesFrom(fnIn.lines, 1))
        IN  /\ fnOut.entry.cmdline = only.cmdline
            /\ fnOut.entry.hidden = only.hidden
            /\ fnOut.entry.requires_terminal = only.requires_terminal
            /\ (fnPc = "returned" /\ fnOut.name # <<>>) =>
                  fnOut.cmdarr = SplitAsciiWhitespace(only.cmdline[1])

\* `Exec=/bin/ls` under [Another Entry] after the entry's own Exec line: the
\* command run is the entry's
C16_Witness ==
    /\ fnPc = "returned"
    /\ fnIn.lines = <<<<"[", "D", "e", "s", "k", "t", "o", "p", " ", "E",
        "n", "t", "r", "y", "]">>, <<"E", "x", "e", "c", "=", "/", "p", "a",
        "t", "h", "/", "t", "o", "/", "a", "p", "p", " ", "p", "1", " ", "%",
        "u", " ", "p", "3">>,
                      <<"[", "A", "n", "o", "t", "h", "e", "r", " ", "E",
                          "n", "t", "r", "y", "]">>, <<"E", "x", "e", "c",
                          "=", "/", "b", "i", "n", "/", "l", "s">>>>
    /\ fnOut.cmd # <<>>
    /\ fnOut.cmd[1] = <<"/", "p", "a", "t", "h", "/", "t", "o", "/", "a",
        "p", "p">>
    /\ fnOut.res = Ok

\* C17: the Exec value is tokenized with quote-aware splitting: a part in
\* double quotes is one token, its spaces kept and the quotes removed, as
\* for_each_token does
C17_ExecQuoteAware ==
    (fnPc = "returned" /\ fnOut.name # <<>>) =>
        fnOut.cmdarr = ForEachToken(fnOut.entry.cmdline[1])

\* C18: in the command built from the Exec line every argument token equal to
\* %u, %U, %f or %F is replaced by the target, every other token is passed on
\* unchanged and in order, and the target is appended as one last argument
\* exactly when no field code was replaced; `Exec=/path/to/app p1 %u p3` with
\* /tmp/test.txt gives `/path/to/app p1 /tmp/test.txt p3`
C18_FieldCodesReplaced ==
    (fnPc = "returned" /\ fnOut.cmd # <<>>) =>
        LET tokens == Tail(fnOut.cmdarr)
            args == Tail(fnOut.cmd)
            n == Len(tokens)
            codes == {<<"%", "u">>, <<"%", "U">>, <<"%", "f">>, <<"%", "F">>}
            replaced == \E i \in 1..n : tokens[i] \in codes
        IN  /\ Len(args) = IF replaced THEN n ELSE n + 1
            /\ \A i \in 1..n :
                  args[i] = IF tokens[i] \in codes THEN fnIn.url
                            ELSE tokens[i]
            /\ ~replaced => args[n + 1] = fnIn.url
            /\ fnOut.entry.cmdline = <<<<"/", "p", "a", "t", "h", "/", "t",
                "o", "/", "a", "p", "p", " ", "p", "1", " ", "%", "u", " ",
                "p", "3">>>> =>
                  fnOut.cmd = <<<<"/", "p", "a", "t", "h", "/", "t", "o",
                      "/", "a", "p", "p">>, <<"p", "1">>, fnIn.url, <<"p", "3">>>>

\* the scenario's command, started
C18_Witness ==
    /\ fnPc = "returned"
    /\ fnOut.entry.cmdline = <<<<"/", "p", "a", "t", "h", "/", "t", "o", "/",
        "a", "p", "p", " ", "p", "1", " ", "%", "u", " ", "p", "3">>>>
    /\ fnIn.url = <<"/", "t", "m", "p", "/", "t", "e", "s", "t", ".", "t",
        "x", "t">>
    /\ fnOut.cmd = <<<<"/", "p", "a", "t", "h", "/", "t", "o", "/", "a", "p",
        "p">>, <<"p", "1">>, <<"/", "t", "m", "p", "/", "t", "e", "s", "t",
        ".", "t", "x", "t">>, <<"p", "3">>>>
    /\ fnOut.res = Ok

\* --------------------------------------------------------------------------
\* SpecLookup: one call of for_matching_path (unix.rs:421-454)
\* --------------------------------------------------------------------------

\* the names looked up: a bare name, a relative and an absolute path
LookupNames == {<<"a", "p", "p">>, <<"b", "i", "n", "/", "a", "p", "p">>, <<
    "/", "o", "p", "t", "/", "a", "p", "p">>}

\* the values of PATH
LookupPathValues == {Unset, SetTo(<<>>), SetTo(<<"/", "a">>), SetTo(<<"/",
    "a", ":", "/", "b">>),
                     SetTo(<<"/", "b", ":", "/", "a">>), SetTo(<<"/", "a",
                         ":", "/", "b", ":", "/", "c">>)}

\* what the operation handed to for_matching_path returns when invoked
LookupOpResults == {Ok, Err("Other"), Err("NotFound")}

LookupInit ==
    /\ ChainParked
    /\ TplParked
    /\ fnPc = "for_matching_path"
    /\ \E name \in LookupNames, path \in LookupPathValues :
       \E fs \in FsViews(name, path) :
          fnIn = [name |-> name, path |-> path, fs |-> fs]
    /\ fnOut = [entries |-> <<>>, examined |-> <<>>, invoked |-> <<>>,
                op |-> <<>>, res |-> Pending]

\* unix.rs:429-440: a name with a separator is tested as it is; else PATH is
\* read
LookupStart ==
    /\ fnPc = "for_matching_path"
    /\ IF StrContains(fnIn.name, <<"/">>)
       THEN /\ fnPc' = "returned"
            /\ IF MetadataOk(fnIn.fs[fnIn.name])
               THEN IF IsFile(fnIn.fs[fnIn.name])
                       /\ HasExecBit(fnIn.fs[fnIn.name])
                    THEN \E r \in LookupOpResults :
                           fnOut' = [fnOut EXCEPT
                                        !.examined = <<fnIn.name>>,
                                        !.invoked = Append(@, fnIn.name),
                                        !.op = Append(@, r),
                                        !.res = r]
                    ELSE fnOut' = [fnOut EXCEPT
                                      !.examined = <<fnIn.name>>,
                                      !.res = Err("NotFound")]
               ELSE fnOut' = [fnOut EXCEPT !.examined = <<fnIn.name>>,
                                           !.res = Err("NotFound")]
       ELSE IF fnIn.path.set
            THEN /\ fnPc' = "path_loop"
                 /\ fnOut' = [fnOut EXCEPT
                                 !.entries = StrSplit(fnIn.path.value, ":")]
            ELSE /\ fnPc' = "returned"
                 /\ fnOut' = [fnOut EXCEPT !.res = Err("NotFound")]
    /\ UNCHANGED <<fnIn, chainVars, tplVars>>

\* mutant: after a failure of the operation the next PATH entry is tried
LookupEntryRetries ==
    /\ fnPc = "path_loop"
    /\ fnOut.entries # <<>>
    /\ LET pb == PathPush(Head(fnOut.entries), fnIn.name)
       IN  IF IsExecutableFile(fnIn.fs[pb])
           THEN \E r \in LookupOpResults :
                   /\ fnPc' = IF r.ok THEN "returned" ELSE fnPc
                   /\ fnOut' = [fnOut EXCEPT
                                   !.examined = Append(@, pb),
                                   !.invoked = Append(@, pb),
                                   !.op = Append(@, r),
                                   !.entries = IF r.ok THEN @ ELSE Tail(@),
                                   !.res = r]
           ELSE /\ fnPc' = fnPc
                /\ fnOut' = [fnOut EXCEPT !.examined = Append(@, pb),
                                          !.entries = Tail(@)]
    /\ UNCHANGED <<fnIn, chainVars, tplVars>>

\* unix.rs:441-449: one turn of the loop over the PATH entries
LookupEntry ==
    /\ fnPc = "path_loop"
    /\ fnOut.entries # <<>>
    /\ LET pb == PathPush(Head(fnOut.entries), fnIn.name)
       IN  IF IsExecutableFile(fnIn.fs[pb])
           THEN /\ fnPc' = "returned"
                /\ \E r \in LookupOpResults :
                      fnOut' = [fnOut EXCEPT
                                   !.examined = Append(@, pb),
                                   !.invoked = Append(@, pb),
                                   !.op = Append(@, r),
                                   !.res = r]
           ELSE /\ fnPc' = fnPc
                /\ fnOut' = [fnOut EXCEPT !.examined = Append(@, pb),
                                          !.entries = Tail(@)]
    /\ UNCHANGED <<fnIn, chainVars, tplVars>>

\* unix.rs:425, 452-453: nothing matched
LookupExhausted ==
    /\ fnPc = "path_loop"
    /\ fnOut.entries = <<>>
    /\ fnPc' = "returned"
    /\ fnOut' = [fnOut EXCEPT !.res = Err("NotFound")]
    /\ UNCHANGED <<fnIn, chainVars, tplVars>>

LookupNext == LookupStart \/ LookupEntry \/ LookupExhausted

SpecLookup == LookupInit /\ [][LookupNext]_vars

\* a regular file with at least one executable permission bit
Qualifies(st) == st = "exec_file"

\* C19: for a name without a path separator the `:`-separated PATH entries are
\* checked in order and the first under which the name is a regular file with
\* an executable bit is selected; a name with a separator is not searched in
\* PATH and is accepted only if that path itself is such a file; when nothing
\* qualifies NotFound is returned and the operation is not invoked
C19_FirstExecutableInPathOrder ==
    fnPc = "returned" =>
        LET name == fnIn.name
            entries == IF fnIn.path.set THEN StrSplit(fnIn.path.value, ":")
                       ELSE <<>>
            under(i) == PathPush(entries[i], name)
            hits == {i \in 1..Len(entries) : Qualifies(fnIn.fs[under(i)])}
        IN  IF StrContains(name, <<"/">>)
            THEN /\ fnOut.examined = <<name>>
                 /\ fnOut.invoked = IF Qualifies(fnIn.fs[name])
                                    THEN <<name>> ELSE <<>>
                 /\ fnOut.invoked = <<>> => fnOut.res = Err("NotFound")
            ELSE IF hits # {}
            THEN LET first == CHOOSE i \in hits : \A j \in hits : i <= j
                 IN  /\ fnOut.invoked = <<under(first)>>
                     /\ fnOut.examined = [i \in 1..first |-> under(i)]
            ELSE /\ fnOut.invoked = <<>>
                 /\ fnOut.res = Err("NotFound")
                 /\ fnOut.examined = [i \in 1..Len(entries) |-> under(i)]

\* PATH=/a:/b, /a/app is a file without an executable bit, /b/app is
\* executable: /a/app is looked at first, /b/app is selected
C19_Witness ==
    /\ fnPc = "returned"
    /\ fnIn.name = <<"a", "p", "p">>
    /\ fnIn.path = SetTo(<<"/", "a", ":", "/", "b">>)
    /\ fnIn.fs[<<"/", "a", "/", "a", "p", "p">>] = "plain_file"
    /\ fnOut.examined = <<<<"/", "a", "/", "a", "p", "p">>, <<"/", "b", "/",
        "a", "p", "p">>>>
    /\ fnOut.invoked = <<<<"/", "b", "/", "a", "p", "p">>>>
    /\ fnOut.res = Ok

\* try_xdg is in its loop over the directories, with one left to look at
InXdgLoop == pc = "xdg_dir" /\ xdg.dirs # <<>>

\* what a step of the loop does with the result of the entry it found
XdgLoopStep ==
    /\ (InXdgLoop /\ Len(runs') = Len(runs) + 1) =>
          (IF last'.res.ok
           THEN pc' = "done" /\ res' = Ok /\ xdg'.dirs = xdg.dirs
           ELSE IF last'.res.kind # "NotFound"
           THEN /\ res' = last'.res
                /\ pc' = "desktop"
                /\ xdg'.dirs = xdg.dirs
           ELSE /\ pc' = "xdg_dir"
                /\ xdg'.dirs = Tail(xdg.dirs)
                /\ res' = res)
    /\ (InXdgLoop /\ res' # res /\ ~res'.ok /\ res'.kind # "NotFound") =>
          (pc' = "desktop" /\ xdg'.dirs = xdg.dirs)
    /\ (InXdgLoop /\ pc' = "xdg_dir" /\ Len(runs') = Len(runs) + 1) =>
          (~last'.res.ok /\ last'.res.kind = "NotFound")
    /\ (pc' = "xdg_dir" => pc \in {"xdg", "xdg_dir"})

\* C20: while try_xdg walks the candidate directories, an entry that launches
\* successfully ends the search with success; an entry that is found but
\* fails with an error of a kind other than NotFound ends the search at once
\* with that error, and no later directory is tried; only a NotFound from the
\* entry lets the search go on with the next directory
C20_XdgSearchEnds == [][XdgLoopStep]_vars

\* the entry of the first directory was found and its command failed in the
\* foreground: the search ended with Other though a directory was left
C20_Witness ==
    /\ UnixDefault /\ tried # <<>> /\ tried[Len(tried)] = "xdg"
    /\ pc = "desktop"
    /\ Len(runs) = 2
    /\ last.role = "launch" /\ last.found /\ last.real
    /\ last.res = Err("Other")
    /\ res = Err("Other")
    /\ Len(xdg.dirs) = 2

\* --------------------------------------------------------------------------
\* The WSL bridge (unix.rs:576-861) and SpecWsl: one call of try_wsl
\* (unix.rs:194-233)
\* --------------------------------------------------------------------------

\* a Result that carries a value
OkOf(v) == [ok |-> TRUE, kind |-> "ok", value |-> v]
ErrOf(kind) == [ok |-> FALSE, kind |-> kind, value |-> <<>>]

\* str::trim_end_matches(ch)
RECURSIVE TrimEndMatches(_, _)
TrimEndMatches(s, ch) ==
    IF s # <<>> /\ s[Len(s)] = ch THEN TrimEndMatches(SubSeq(s, 1, Len(s) - 1), ch)
    ELSE s

\* the text without its leading separators
RECURSIVE TrimStartSeparators(_)
TrimStartSeparators(s) ==
    IF s # <<>> /\ s[1] = "/" THEN TrimStartSeparators(Tail(s)) ELSE s

\* Path::strip_prefix and Path::starts_with, by components: <<rest>> when the
\* path is the base or lies under it, the rest without leading separator
StripPrefix(path, base) ==
    LET b == IF Len(base) > 1 THEN TrimEndMatches(base, "/") ELSE base
    IN  IF path = b THEN <<<<>>>>
        ELSE IF b = <<"/">>
        THEN (IF path # <<>> /\ path[1] = "/"
              THEN <<TrimStartSeparators(path)>> ELSE <<>>)
        ELSE IF /\ Len(path) > Len(b)
                /\ SubSeq(path, 1, Len(b)) = b
                /\ path[Len(b) + 1] = "/"
        THEN <<TrimStartSeparators(SubSeq(path, Len(b) + 1, Len(path)))>>
        ELSE <<>>

\* str::ends_with
EndsWith(s, sfx) ==
    Len(s) >= Len(sfx) /\ SubSeq(s, Len(s) - Len(sfx) + 1, Len(s)) = sfx

\* str::find(pattern): the index of the first match, 0 for None
FindStr(s, pat) ==
    IF \E i \in 1..Len(s) : StartsWithAt(s, i, pat)
    THEN CHOOSE i \in 1..Len(s) :
            StartsWithAt(s, i, pat) /\ \A j \in 1..(i - 1) : ~StartsWithAt(s, j, pat)
    ELSE 0

\* the directory a path lies in (no trailing separator in the path)
ParentDir(p) ==
    LET cut == {i \in 1..Len(p) : p[i] = "/"}
        last_cut == CHOOSE i \in cut : \A j \in cut : j <= i
    IN  IF cut = {} THEN <<>>
        ELSE IF last_cut = 1 THEN <<"/">>
        ELSE SubSeq(p, 1, last_cut - 1)

\* unix.rs:591-629, get_wsl_win_config: `canon_ok` is whether canonicalize
\* succeeds on <entry>/../.. and `ps_files` the directories of PATH that hold a
\* regular file powershell.exe. The root is the canonical path when no
\* symbolic link is on the way
RECURSIVE FirstSystem32(_)
FirstSystem32(paths) ==
    IF paths = <<>> THEN <<>>
    ELSE IF EndsWith(TrimEndMatches(ToAsciiLowercase(Head(paths)), "/"),
                     <<"/", "w", "i", "n", "d", "o", "w", "s", "/", "s", "y",
                         "s", "t", "e", "m", "3", "2">>)
         THEN <<Head(paths)>>
         ELSE FirstSystem32(Tail(paths))

RECURSIVE LastPowershell(_, _, _, _)
LastPowershell(paths, root, ps_files, found) ==
    IF paths = <<>> THEN found
    ELSE LastPowershell(Tail(paths), root, ps_files,
                        IF /\ StripPrefix(TrimEndMatches(Head(paths), "/"),
                                          root) # <<>>
                           /\ Head(paths) \in ps_files
                        THEN <<PathPush(Head(paths), <<"p", "o", "w", "e",
                            "r", "s", "h", "e", "l", "l", ".", "e", "x", "e">>)>>
                        ELSE found)

GetWslWinConfig(path_env, canon_ok, ps_files) ==
    IF ~path_env.set THEN ErrOf("NotFound")
    ELSE LET paths == StrSplit(path_env.value, ":")
             sys32 == FirstSystem32(paths)
         IN  IF sys32 = <<>> THEN ErrOf("NotFound")
             ELSE IF ~canon_ok THEN ErrOf("NotFound")
             ELSE LET root == ParentDir(ParentDir(
                                  TrimEndMatches(sys32[1], "/")))
                  IN  OkOf([root |-> root,
                            cmd_path |-> PathPush(sys32[1], <<"c", "m", "d",
                                ".", "e", "x", "e">>),
                            powershell_path |->
                                LastPowershell(paths, root, ps_files, <<>>)])

\* unix.rs:765-791, get_wsl_distro_name: `distro` is WSL_DISTRO_NAME and `ps`
\* what powershell.exe does when asked for the location (its fate, and the
\* text it writes). The slice output[idx + 9..] aborts when it starts past the
\* end of the text
GetWslDistroName(wc, distro, ps) ==
    IF distro.set THEN OkOf(distro.value)
    ELSE IF wc.powershell_path = <<>> THEN ErrOf("Other")
    ELSE IF ps.proc \in SpawnFailures THEN ErrOf(SpawnErrorKind(ps.proc))
    ELSE LET output == TrimEndMatches(ps.text, "\\")
             idx == FindStr(output, <<":", ":", "\\", "\\">>)
         IN  IF idx = 0 THEN ErrOf("Other")
             ELSE IF idx + 8 > Len(output) THEN ErrOf("panic")
             ELSE OkOf(StrTrim(SubSeq(output, idx + 9, Len(output))))

\* mutant: the separators of the path are left as they are
WslPathLin2WinKeepsSlashes(wc, path, name) ==
    LET under == StripPrefix(path, wc.root)
    IN  IF under # <<>>
        THEN OkOf(<<"C", ":", "\\">> \o under[1])
        ELSE IF ~name.ok THEN name
        ELSE OkOf(<<"\\", "\\", "w", "s", "l", "$", "\\">>
                  \o name.value \o path)

\* unix.rs:747-762, wsl_path_lin2win; `name` is the Result of
\* get_wsl_distro_name, which is called only for a path outside the root
WslPathLin2Win(wc, path, name) ==
    LET under == StripPrefix(path, wc.root)
    IN  IF under # <<>>
        THEN OkOf(StrReplace(<<"C", ":", "\\">> \o under[1], <<"/">>, <<"\\">>))
        ELSE IF ~name.ok THEN name
        ELSE OkOf(StrReplace(<<"\\", "\\", "w", "s", "l", "$", "\\">>
                             \o name.value \o path, <<"/">>, <<"\\">>))

\* unix.rs:713-727, wsl_get_filepath_from_url, for a target given as scheme,
\* host (<<>> for none), path and full text
WslGetFilepathFromUrl(wc, t, name) ==
    IF t.scheme = Txt.file
    THEN (IF t.host = <<>> THEN WslPathLin2Win(wc, t.path, name)
          ELSE OkOf(<<"\\", "\\", "w", "s", "l", "$">>
                    \o StrReplace(t.path, <<"/">>, <<"\\">>)))
    ELSE OkOf(t.url)

\* mutant: the backslashes of the remainder are kept
WslPathWin2LinKeepsBackslashes(wc, path) ==
    IF ByteLen(path) > 3
    THEN (IF ~IsCharBoundary(path, 3) THEN ErrOf("panic")
          ELSE LET k == CharsIn(path, 3)
               IN  IF SubSeq(path, 1, k) \in {<<"C", ":", "\\">>,
                                              <<"c", ":", "\\">>}
                   THEN OkOf(PathPush(wc.root, SubSeq(path, k + 1, Len(path))))
                   ELSE ErrOf("NotFound"))
    ELSE ErrOf("NotFound")

\* unix.rs:730-743, wsl_path_win2lin: the slices path[..3] and path[3..] are
\* taken at byte 3 and abort when that is inside a character
WslPathWin2Lin(wc, path) ==
    IF ByteLen(path) > 3
    THEN (IF ~IsCharBoundary(path, 3) THEN ErrOf("panic")
          ELSE LET k == CharsIn(path, 3)
               IN  IF SubSeq(path, 1, k) \in {<<"C", ":", "\\">>,
                                              <<"c", ":", "\\">>}
                   THEN OkOf(PathPush(wc.root,
                                      StrReplace(SubSeq(path, k + 1, Len(path)),
                                                 <<"\\">>, <<"/">>)))
                   ELSE ErrOf("NotFound"))
    ELSE ErrOf("NotFound")

\* mutant: the placeholders %0 and %1 are passed on as they are
WslTokensKeepsPlaceholders(cmdline, fp) == ForEachToken(cmdline)

\* unix.rs:694-701: the tokens of the command line, %0 and %1 replaced
WslTokens(cmdline, fp) ==
    LET raw == ForEachToken(cmdline)
    IN  [i \in 1..Len(raw) |->
            IF raw[i] \in {<<"%", "0">>, <<"%", "1">>} THEN fp ELSE raw[i]]

\* unix.rs:690-711, parse_wsl_cmdline: the Result, with the file path and the
\* tokens it went through, and the component that was missing on an error
ParseWslCmdline(wc, cmdline, t, name) ==
    LET filepath == WslGetFilepathFromUrl(wc, t, name)
        tokens == WslTokens(cmdline, filepath.value)
        progpath == WslPathWin2Lin(wc, tokens[1])
    IN  IF ~filepath.ok
        THEN [res |-> ErrOf(filepath.kind), filepath |-> <<>>,
              tokens |-> <<>>, cause |-> "distro_name"]
        ELSE IF ForEachTokenPanics(cmdline)
        THEN [res |-> ErrOf("panic"), filepath |-> <<filepath.value>>,
              tokens |-> <<>>, cause |-> "slice"]
        ELSE IF tokens = <<>>
        THEN [res |-> ErrOf("NotFound"), filepath |-> <<filepath.value>>,
              tokens |-> tokens, cause |-> "no_tokens"]
        ELSE IF ~progpath.ok
        THEN [res |-> ErrOf(progpath.kind), filepath |-> <<filepath.value>>,
              tokens |-> tokens,
              cause |-> IF progpath.kind = "panic" THEN "slice" ELSE "drive"]
        ELSE [res |-> OkOf([prog |-> progpath.value, args |-> Tail(tokens)]),
              filepath |-> <<filepath.value>>, tokens |-> tokens,
              cause |-> "none"]

\* a target as the url crate gives it: scheme, host (<<>> for none), path, text
WslTarget(scheme, host, path, url) ==
    [scheme |-> scheme, host |-> host, path |-> path, url |-> url]

WslTargets == {
    WslTarget(<<"h", "t", "t", "p">>, <<"e">>, <<"/">>, <<"h", "t", "t", "p",
        ":", "/", "/", "e", "/", "?", "a", "^", "b", "&", "c">>),
    WslTarget(<<"h", "t", "t", "p", "s">>, <<"e">>, <<"/">>, <<"h", "t", "t",
        "p", "s", ":", "/", "/", "e", "/", "?", "x", "&", "y">>),
    WslTarget(<<"f", "i", "l", "e">>, <<>>, <<"/", "m", "n", "t", "/", "c",
        "/", "t", ".", "t", "x", "t">>, <<"f", "i", "l", "e", ":", "/", "/",
        "/", "m", "n", "t", "/", "c", "/", "t", ".", "t", "x", "t">>),
    WslTarget(<<"f", "i", "l", "e">>, <<>>, <<"/", "h", "o", "m", "e", "/",
        "u", "/", "t", ".", "t", "x", "t">>, <<"f", "i", "l", "e", ":", "/",
        "/", "/", "h", "o", "m", "e", "/", "u", "/", "t", ".", "t", "x", "t">>),
    WslTarget(<<"f", "i", "l", "e">>, <<"s", "r", "v">>, <<"/", "s", "/",
        "t", ".", "t", "x", "t">>, <<"f", "i", "l", "e", ":", "/", "/", "s",
        "r", "v", "/", "s", "/", "t", ".", "t", "x", "t">>),
    WslTarget(<<"f", "t", "p">>, <<"e">>, <<"/", "f">>, <<"f", "t", "p", ":",
        "/", "/", "e", "/", "f">>)
}

\* the values of PATH get_wsl_win_config can meet
WslPathEnvs == {
    Unset,
    SetTo(<<"/", "u", "s", "r", "/", "b", "i", "n">>),
    SetTo(<<"/", "u", "s", "r", "/", "b", "i", "n", ":", "/", "m", "n", "t",
        "/", "c", "/", "W", "i", "n", "d", "o", "w", "s", "/", "S", "y", "s",
        "t", "e", "m", "3", "2">>),
    SetTo(<<"/", "m", "n", "t", "/", "c", "/", "W", "I", "N", "D", "O", "W",
        "S", "/", "s", "y", "s", "t", "e", "m", "3", "2", "/", ":", "/", "m",
        "n", "t", "/", "c", "/", "P", "S", ":", "/", "o", "p", "t", "/", "P",
        "S">>)
}

\* the PATH directories that can hold a regular file powershell.exe
WslPsDirs == {<<"/", "m", "n", "t", "/", "c", "/", "P", "S">>, <<"/", "o",
    "p", "t", "/", "P", "S">>}

\* what the query of the registered browser does: the fate of its process and
\* the text it writes
WslQueryRuns == {
    [proc |-> "spawn_NotFound", text |-> <<>>],
    [proc |-> "exit_zero", text |-> <<"\r", "\n">>],
    [proc |-> "exit_zero", text |-> <<"\"", "C", ":", "\\", "P", " ", "F",
        "\\", "b", ".", "e", "x", "e", "\"", " ", "\"", "%", "1", "\"", "\r",
        "\n">>],
    [proc |-> "exit_zero", text |-> <<"c", ":", "\\", "b", ".", "e", "x",
        "e", " ", "-", "u", " ", "%", "0", " ", "x">>],
    [proc |-> "exit_zero", text |-> <<"D", ":", "\\", "b", ".", "e", "x",
        "e", " ", "%", "1">>],
    [proc |-> "exit_zero", text |-> <<"\\", "\\", "s", "r", "v", "\\", "b",
        ".", "e", "x", "e", " ", "%", "1">>],
    [proc |-> "exit_zero", text |-> <<"C", ":", "\\">>],
    [proc |-> "exit_zero", text |-> <<"t", "h", "é", ".", "e", "x", "e", " ",
        "%", "1">>],
    [proc |-> "exit_zero", text |-> <<"h", "t", "t", "p", "=", "\"", "C",
        ":", "\\", "b", ".", "e", "x", "e", "\"", " ", "\"", "%", "1", "\"",
        "\r", "\n">>]
}

\* WSL_DISTRO_NAME
WslDistroEnvs == {Unset, SetTo(<<"U", "b", "u", "n", "t", "u">>)}

\* what powershell.exe does when asked for the location of /
WslLocationRuns == {
    [proc |-> "spawn_NotFound", text |-> <<>>],
    [proc |-> "exit_zero",
     text |-> <<"M", "i", "c", "r", "o", "s", "o", "f", "t", ".", "P", "o",
         "w", "e", "r", "S", "h", "e", "l", "l", ".", "C", "o", "r", "e",
         "\\", "F", "i", "l", "e", "S", "y", "s", "t", "e", "m", ":", ":",
         "\\", "\\", "w", "s", "l", "$", "\\", "D", "e", "b", "i", "a", "n",
         "\\", "\r", "\n">>],
    [proc |-> "exit_zero", text |-> <<"C", ":", "\\", "W", "i", "n", "d",
        "o", "w", "s", "\r", "\n">>]
}

\* what a command meets when run_command starts it
WslProcs == {"exit_zero", "exit_nonzero", "spawn_NotFound"}

WslStartOut ==
    [openers |-> <<>>, runs |-> <<>>, wc |-> <<>>, via |-> "none",
     cmdline |-> <<>>, distro |-> Unset, filepath |-> <<>>, tokens |-> <<>>,
     cmd |-> <<>>, cause |-> "none", res |-> Pending]

WslInit ==
    /\ ChainParked
    /\ TplParked
    /\ fnPc = "try_wsl"
    /\ \E t \in WslTargets, dry \in BOOLEAN :
          fnIn = [target |-> t, dry_run |-> dry]
    /\ fnOut = WslStartOut

\* unix.rs:194-195, 215-219, 231: the match on the scheme (built for Linux
\* without the features hardened and disable-wsl)
WslStart ==
    /\ fnPc = "try_wsl"
    /\ IF IsHttp(fnIn.target.scheme)
       THEN /\ fnPc' = "wsl_http"
            /\ fnOut' = [fnOut EXCEPT !.openers = WslOpeners(fnIn.target.url)]
       ELSE IF fnIn.target.scheme = Txt.file
       THEN /\ fnPc' = "get_wsl_win_config"
            /\ fnOut' = fnOut
       ELSE /\ fnPc' = "returned"
            /\ fnOut' = [fnOut EXCEPT !.res = Err("NotFound")]
    /\ UNCHANGED <<fnIn, chainVars, tplVars>>

\* unix.rs:197-213: the next of the three commands; the first success ends
\* the arm, and the arm's error is that of wsl-open
WslHttpOpener ==
    /\ fnPc = "wsl_http"
    /\ fnOut.openers # <<>>
    /\ LET o == Head(fnOut.openers)
       IN  \E pathVar \in PathValues : \E fs \in FsViews(o.name, pathVar) :
           \E proc \in IF fnIn.dry_run
                          \/ ForMatchingPath(o.name, pathVar, fs) = <<>>
                       THEN {"none"} ELSE WslProcs :
              LET a == Attempt(o.name, o.args, "auto", fnIn.dry_run, pathVar,
                               fs, proc)
                  over == a.res.ok \/ Tail(fnOut.openers) = <<>>
              IN  /\ fnOut' = [fnOut EXCEPT
                                  !.runs = Append(@, [name |-> o.name,
                                                      args |-> o.args,
                                                      found |-> a.entry.found,
                                                      ok |-> a.res.ok]),
                                  !.openers = IF a.res.ok THEN @ ELSE Tail(@),
                                  !.res = IF over THEN a.res ELSE @]
                  /\ fnPc' = IF over THEN "returned" ELSE fnPc
    /\ UNCHANGED <<fnIn, chainVars, tplVars>>

\* unix.rs:223, get_wsl_win_config()?
WslWinConfig ==
    /\ fnPc = "get_wsl_win_config"
    /\ \E path_env \in WslPathEnvs, canon_ok \in BOOLEAN,
          ps_files \in SUBSET WslPsDirs :
          LET wc == GetWslWinConfig(path_env, canon_ok, ps_files)
          IN  IF wc.ok
              THEN /\ fnPc' = "browser_query"
                   /\ fnOut' = [fnOut EXCEPT !.wc = <<wc.value>>]
              ELSE /\ fnPc' = "returned"
                   /\ fnOut' = [fnOut EXCEPT !.res = Err(wc.kind),
                                             !.cause = "windows_root"]
    /\ UNCHANGED <<fnIn, chainVars, tplVars>>

\* unix.rs:224-228 with get_wsl_windows_browser_ps (632-661) and
\* get_wsl_windows_browser_cmd (664-686) up to the call of parse_wsl_cmdline:
\* the query runs whatever options.dry_run says
WslQuery ==
    /\ fnPc = "browser_query"
    /\ \E q \in WslQueryRuns :
          LET via == IF fnOut.wc[1].powershell_path # <<>> THEN "powershell"
                     ELSE "cmd"
              output == StrTrim(q.text)
          IN  IF q.proc \in SpawnFailures
              THEN /\ fnPc' = "returned"
                   /\ fnOut' = [fnOut EXCEPT !.via = via,
                                   !.res = Err(SpawnErrorKind(q.proc)),
                                   !.cause = "spawn"]
              ELSE IF output = <<>>
              THEN /\ fnPc' = "returned"
                   /\ fnOut' = [fnOut EXCEPT !.via = via,
                                   !.res = Err("NotFound"),
                                   !.cause = "empty_output"]
              ELSE /\ fnPc' = "parse_wsl_cmdline"
                   /\ fnOut' = [fnOut EXCEPT !.via = via,
                                             !.cmdline = output]
    /\ UNCHANGED <<fnIn, chainVars, tplVars>>

\* unix.rs:690-711, parse_wsl_cmdline, with the environment
\* get_wsl_distro_name meets
WslParse ==
    /\ fnPc = "parse_wsl_cmdline"
    /\ \E distro \in WslDistroEnvs, ps \in WslLocationRuns :
          LET name == GetWslDistroName(fnOut.wc[1], distro, ps)
              p == ParseWslCmdline(fnOut.wc[1], fnOut.cmdline, fnIn.target,
                                   name)
          IN  /\ fnOut' = [fnOut EXCEPT
                              !.distro = distro,
                              !.filepath = p.filepath,
                              !.tokens = p.tokens,
                              !.cause = p.cause,
                              !.cmd = IF p.res.ok
                                      THEN <<p.res.value.prog>>
                                           \o p.res.value.args
                                      ELSE <<>>,
                              !.res = IF p.res.ok \/ p.res.kind = "panic"
                                      THEN @ ELSE Err(p.res.kind)]
              /\ fnPc' = IF p.res.ok THEN "run_command"
                         ELSE IF p.res.kind = "panic" THEN "panic"
                         ELSE "returned"
    /\ UNCHANGED <<fnIn, chainVars, tplVars>>

\* unix.rs:229: run_command(&mut cmd, true, options)
WslRun ==
    /\ fnPc = "run_command"
    /\ \E proc \in IF fnIn.dry_run THEN {"none"} ELSE WslProcs :
          fnOut' = [fnOut EXCEPT !.res = RunCommand(TRUE, fnIn.dry_run, proc)]
    /\ fnPc' = "returned"
    /\ UNCHANGED <<fnIn, chainVars, tplVars>>

WslNext ==
    \/ WslStart \/ WslHttpOpener \/ WslWinConfig \/ WslQuery \/ WslParse
    \/ WslRun

SpecWsl == WslInit /\ [][WslNext]_vars

\* the text with every `/` turned into `\`
Backslashed(s) == [i \in 1..Len(s) |-> IF s[i] = "/" THEN "\\" ELSE s[i]]

\* parse_wsl_cmdline has mapped the local file of the target to a Windows path
FileMapped ==
    /\ fnPc \in {"run_command", "returned"}
    /\ fnOut.filepath # <<>>
    /\ fnIn.target.scheme = Txt.file /\ fnIn.target.host = <<>>

\* C21: wsl_path_lin2win turns a path under the Windows root into `C:\` and
\* the remainder with every `/` turned into `\`, and any other path into
\* `\\wsl$\<distro>` and the path with every `/` turned into `\`, the distro
\* being WSL_DISTRO_NAME when set; for Ubuntu and a path outside the root the
\* result is `\\wsl$\Ubuntu\<path-with-backslashes>`
C21_LinuxPathToWindows ==
    FileMapped =>
        LET root == fnOut.wc[1].root
            path == fnIn.target.path
            n == Len(root)
            under == path = root
                     \/ (Len(path) > n /\ SubSeq(path, 1, n + 1) = root \o <<"/">>)
        IN  IF under
            THEN fnOut.filepath[1] =
                    <<"C", ":", "\\">> \o Backslashed(SubSeq(path, n + 2, Len(path)))
            ELSE /\ fnOut.distro.set =>
                       fnOut.filepath[1] = <<"\\", "\\", "w", "s", "l", "$",
                           "\\">> \o fnOut.distro.value
                                           \o Backslashed(path)
                 /\ fnOut.distro = SetTo(<<"U", "b", "u", "n", "t", "u">>) =>
                       SubSeq(fnOut.filepath[1], 1, 14) = <<"\\", "\\", "w",
                           "s", "l", "$", "\\", "U", "b", "u", "n", "t", "u",
                           "\\">>

\* distro Ubuntu, /home/u/t.txt outside the root /mnt/c
C21_Witness ==
    /\ FileMapped
    /\ fnOut.wc[1].root = <<"/", "m", "n", "t", "/", "c">>
    /\ fnOut.distro = SetTo(<<"U", "b", "u", "n", "t", "u">>)
    /\ fnIn.target.path = <<"/", "h", "o", "m", "e", "/", "u", "/", "t", ".",
        "t", "x", "t">>
    /\ fnOut.filepath = <<<<"\\", "\\", "w", "s", "l", "$", "\\", "U", "b",
        "u", "n", "t", "u", "\\", "h", "o", "m", "e", "\\", "u", "\\", "t",
        ".", "t", "x", "t">>>>

\* C22: every failure of the WSL bridge caused by a missing component (no
\* PATH entry ending in windows/system32, empty output of the registry query,
\* a command line without tokens, a program on an unsupported drive, a distro
\* name that cannot be determined) is an error of kind NotFound
C22_MissingComponentIsNotFound ==
    (/\ fnPc = "returned"
     /\ fnOut.cause \in {"windows_root", "empty_output", "no_tokens", "drive",
                         "distro_name"})
        => fnOut.res = Err("NotFound")

\* C23: on Unix, Windows and Android a request for any browser other than
\* Browser::Default returns NotFound at once: no environment variable is read,
\* no strategy is entered and no process is started
C23_OnlyDefaultSupported ==
    (/\ platform \in UnixPlatforms \cup {"windows", "android"}
     /\ browser # "Default"
     /\ pc # "open")
        => /\ pc = "done"
           /\ res = Err("NotFound")
           /\ ~envBrowser.set /\ cands = <<>>
           /\ tried = <<>> /\ runs = <<>> /\ last = NoEntry
           /\ ~spawned /\ ~located

\* Safari asked for on Linux
C23_Witness ==
    /\ platform = "linux" /\ browser = "Safari"
    /\ pc = "done" /\ res = Err("NotFound") /\ tried = <<>>

\* ---------------------------------------------------------------------------
\* The library entry point in hardened mode.  The crate's tests
\* (tests/test_unix.rs:65-71, test_windows.rs:66-72, test_macos.rs:85-91)
\* open file:///etc/passwd with the feature `hardened` and expect
\* InvalidInput; the entry point that makes the test is above the platform
\* modules, and is modelled here in front of the chain of Spec.
\* ---------------------------------------------------------------------------

OpenInit ==
    /\ platform \in Platforms
    /\ native \in NativeWorlds(platform)
    /\ browser \in Browsers
    /\ target \in Targets
    /\ dryRun \in BOOLEAN
    /\ pc = "entry"
    /\ res = Pending
    /\ envBrowser = [set |-> FALSE, value |-> <<>>]
    /\ cands = <<>>
    /\ xdg = NoXdg
    /\ desktop = "none"
    /\ openers = <<>>
    /\ tried = <<>>
    /\ runs = <<>>
    /\ last = NoEntry
    /\ spawned = FALSE
    /\ fgFailed = FALSE
    /\ located = FALSE
    /\ TplParked
    /\ fnPc = "parked"
    /\ fnIn \in [hardened : BOOLEAN]
    /\ fnOut = <<>>

\* mutant: the scheme is not looked at
OpenWithOptionsAnyScheme ==
    /\ pc = "entry"
    /\ pc' = "open"
    /\ res' = res
    /\ UNCHANGED <<callVars, envBrowser, cands, xdg, desktop, openers,
                   historyVars, tplVars, fnVars>>

\* the entry point: in hardened mode a target that is not http(s) is refused
\* before the platform's open_browser_internal is called
OpenWithOptions ==
    /\ pc = "entry"
    /\ IF fnIn.hardened /\ ~IsHttp(Scheme(target))
       THEN pc' = "done" /\ res' = Err("InvalidInput")
       ELSE pc' = "open" /\ res' = res
    /\ UNCHANGED <<callVars, envBrowser, cands, xdg, desktop, openers,
                   historyVars, tplVars, fnVars>>

OpenNext == OpenWithOptions \/ Next

SpecOpen == OpenInit /\ [][OpenNext]_vars

\* C24: in hardened mode a target whose scheme is not http or https fails
\* with InvalidInput, and no strategy of the launch chain is attempted
C24_HardenedRefusesNonHttp ==
    (/\ fnIn.hardened
     /\ ~IsHttp(Scheme(target))
     /\ pc # "entry")
        => /\ pc = "done"
           /\ res = Err("InvalidInput")
           /\ ~envBrowser.set /\ cands = <<>>
           /\ tried = <<>> /\ runs = <<>> /\ last = NoEntry
           /\ ~spawned /\ ~located

\* a file target refused in hardened mode
C24_Witness ==
    /\ fnIn.hardened
    /\ Scheme(target) = <<"f", "i", "l", "e">>
    /\ pc = "done" /\ res = Err("InvalidInput")

\* C25: for every value of BROWSER, a candidate of white space only
\* included, try_with_browser_env returns a result and never aborts: while it
\* is the only strategy entered, the call is never in the aborted state
C25_BrowserEnvNeverAborts ==
    (tried = <<"browser_env">>) => pc # "panic"

\* C26: for every content of a desktop file, `Exec=` with an empty or blank
\* value included, open_using_xdg_config returns a result and never aborts
C26_XdgConfigNeverAborts ==
    (fnPc \notin {"parked", "start"}) => fnPc # "panic"

\* ---------------------------------------------------------------------------
\* The search of try_xdg for the desktop file (unix.rs:284-319), one
\* directory of get_xdg_dirs per step, every metadata() call recorded
\* ---------------------------------------------------------------------------

\* XDG_DATA_HOME unset, absolute or relative; the home directory known or
\* not; XDG_DATA_DIRS unset, of one entry or of two
SearchEnvs ==
    {[data_home |-> dh, home |-> h, data_dirs |-> dd] :
        dh \in {Unset, SetTo(<<"/", "d", "h">>), SetTo(<<"r", "e", "l">>)},
        h \in {<<>>, <<<<"/", "h">>>>},
        dd \in {Unset, SetTo(<<"/", "d", "1">>), SetTo(<<"/", "d", "1", ":",
            "/", "d", "2">>)}}

\* the trimmed output of xdg-settings, without and with a vendor prefix
SearchNames == {<<"b", ".", "d", "e", "s", "k", "t", "o", "p">>, <<"v", "-",
    "b", ".", "d", "e", "s", "k", "t", "o", "p">>}

\* what metadata() of a path gives: two errors, or a file or directory
MetaStatus == {"absent", "denied", "plain_file", "dir"}

MetaErr(st) == st \in {"absent", "denied"}

\* what open_using_xdg_config returns for a file that was found
SearchOpenResults == {Ok, Err("NotFound"), Err("Other"), Err("PermissionDenied")}

SearchInit ==
    /\ fnPc = "start"
    /\ \E e \in SearchEnvs : \E n \in SearchNames :
          fnIn = [env |-> e, name |-> n]
    /\ fnOut = <<>>
    /\ ChainParked
    /\ TplParked

\* unix.rs:285-288: get_xdg_dirs() is called once, before the loop
SearchStart ==
    /\ fnPc = "start"
    /\ fnOut' = [dirs |-> GetXdgDirs(fnIn.env), probes |-> <<>>,
                 config_found |-> FALSE, res |-> Pending]
    /\ fnPc' = "dir"
    /\ UNCHANGED <<fnIn, chainVars, tplVars>>

\* unix.rs:288-312: one turn of the loop
SearchDir ==
    /\ fnPc = "dir"
    /\ fnOut.dirs # <<>>
    /\ LET xdg_dir == Head(fnOut.dirs)
           literal == ConfigPath(xdg_dir, fnIn.name)
           child == ConfigPath(xdg_dir, StrReplace(fnIn.name, <<"-">>, <<"/">>))
       IN  \E st1 \in MetaStatus : \E st2 \in MetaStatus :
           \E r \in SearchOpenResults :
              LET second == MetaErr(st1) /\ StrContains(fnIn.name, <<"-">>)
                  metadata == IF second THEN st2 ELSE st1
                  probed ==
                      <<[dir |-> xdg_dir, path |-> literal, variant |-> FALSE,
                         status |-> st1]>>
                      \o (IF second
                          THEN <<[dir |-> xdg_dir, path |-> child,
                                  variant |-> TRUE, status |-> st2]>>
                          ELSE <<>>)
                  found == ~MetaErr(metadata)
                  returns == found /\ (r.ok \/ r.kind # "NotFound")
              IN  /\ (~second) => st2 = "absent"
                  /\ (~found) => r = Err("NotFound")
                  /\ fnOut' = [dirs |-> Tail(fnOut.dirs),
                               probes |-> fnOut.probes \o probed,
                               config_found |-> (fnOut.config_found \/ found),
                               res |-> IF returns THEN r ELSE Pending]
                  /\ fnPc' = IF returns THEN "returned" ELSE "dir"
    /\ UNCHANGED <<fnIn, chainVars, tplVars>>

\* unix.rs:315-319: the directories are exhausted
SearchExhausted ==
    /\ fnPc = "dir"
    /\ fnOut.dirs = <<>>
    /\ fnOut' = [fnOut EXCEPT !.res = IF fnOut.config_found
                                      THEN Err("Other") ELSE Err("NotFound")]
    /\ fnPc' = "returned"
    /\ UNCHANGED <<fnIn, chainVars, tplVars>>

SearchNext == SearchStart \/ SearchDir \/ SearchExhausted

SpecSearch == SearchInit /\ [][SearchNext]_vars

\* the directories of the literal checks made so far, in order
RECURSIVE LiteralDirs(_)
LiteralDirs(probes) ==
    IF probes = <<>> THEN <<>>
    ELSE (IF Head(probes).variant THEN <<>> ELSE <<Head(probes).dir>>)
         \o LiteralDirs(Tail(probes))

\* the text between a directory and the name looked for in it
UnderApplications ==
    <<"/", "a", "p", "p", "l", "i", "c", "a", "t", "i", "o", "n", "s", "/">>

\* in each directory the literal basename first, the variant with `/` for
\* `-` right after it and only when the literal check failed and the name
\* holds a `-`
LiteralThenVariant ==
    \A i \in 1..Len(fnOut.probes) :
       LET p == fnOut.probes[i]
       IN  IF p.variant
           THEN /\ i > 1
                /\ ~fnOut.probes[i - 1].variant
                /\ fnOut.probes[i - 1].dir = p.dir
                /\ MetaErr(fnOut.probes[i - 1].status)
                /\ StrContains(fnIn.name, <<"-">>)
                /\ p.path = p.dir \o UnderApplications
                            \o <<"v", "/", "b", ".", "d", "e", "s", "k", "t", "o", "p">>
           ELSE /\ p.path = p.dir \o UnderApplications \o fnIn.name
                /\ (MetaErr(p.status) /\ StrContains(fnIn.name, <<"-">>))
                      => (i < Len(fnOut.probes) /\ fnOut.probes[i + 1].variant)

\* $XDG_DATA_DIRS entry by entry, else the two defaults
StatedDataDirs ==
    IF fnIn.env.data_dirs.set
    THEN StrSplit(fnIn.env.data_dirs.value, ":")
    ELSE <<<<"/", "u", "s", "r", "/", "l", "o", "c", "a", "l", "/", "s", "h",
        "a", "r", "e">>, <<"/", "u", "s", "r", "/", "s", "h", "a", "r", "e">>>>

\* $XDG_DATA_HOME whenever it is set, else ~/.local/share
StatedDirs ==
    (IF fnIn.env.data_home.set THEN <<fnIn.env.data_home.value>>
     ELSE IF fnIn.env.home # <<>>
          THEN <<fnIn.env.home[1] \o <<"/", ".", "l", "o", "c", "a", "l",
              "/", "s", "h", "a", "r", "e">>>>
          ELSE <<>>)
    \o StatedDataDirs

\* $XDG_DATA_HOME when it is set to an absolute path, else ~/.local/share
\* when the home directory is known, else no first directory
AbsoluteDirs ==
    (IF fnIn.env.data_home.set /\ fnIn.env.data_home.value # <<>>
        /\ Head(fnIn.env.data_home.value) = "/"
     THEN <<fnIn.env.data_home.value>>
     ELSE IF fnIn.env.home # <<>>
          THEN <<fnIn.env.home[1] \o <<"/", ".", "l", "o", "c", "a", "l",
              "/", "s", "h", "a", "r", "e">>>>
          ELSE <<>>)
    \o StatedDataDirs

\* C27 as stated: the directories are searched in the order $XDG_DATA_HOME
\* when set (else ~/.local/share), then the entries of $XDG_DATA_DIRS (else
\* /usr/local/share, /usr/share); in each the literal basename first and the
\* variant with `-` turned into `/` only when the literal is absent and the
\* name holds a `-`
C27_SearchOrderAsStated ==
    (fnPc \in {"dir", "returned"})
        => /\ LiteralDirs(fnOut.probes) \o fnOut.dirs = StatedDirs
           /\ LiteralThenVariant

\* C27 amended: the first directory is $XDG_DATA_HOME only when it is set to
\* an absolute path, else ~/.local/share when the home directory is known,
\* else none; then the entries of $XDG_DATA_DIRS (else the two defaults); in
\* each the literal basename first and the variant only when the literal's
\* metadata cannot be read and the name holds a `-`
C27_SearchOrder ==
    (fnPc \in {"dir", "returned"})
        => /\ LiteralDirs(fnOut.probes) \o fnOut.dirs = AbsoluteDirs
           /\ LiteralThenVariant

\* XDG_DATA_HOME=rel: the search went through ~/.local/share, where the
\* variant was checked after the literal name, and on to /d1 and /d2
C27_Witness ==
    /\ fnPc = "returned"
    /\ fnIn.env.data_home = SetTo(<<"r", "e", "l">>)
    /\ fnIn.name = <<"v", "-", "b", ".", "d", "e", "s", "k", "t", "o", "p">>
    /\ Len(fnOut.probes) = 5
    /\ fnOut.probes[1].path = <<"/", "h", "/", ".", "l", "o", "c", "a", "l",
        "/", "s", "h", "a", "r", "e", "/", "a", "p", "p", "l", "i", "c", "a",
        "t", "i", "o", "n", "s", "/", "v", "-", "b", ".", "d", "e", "s", "k",
        "t", "o", "p">>
    /\ fnOut.probes[2].path = <<"/", "h", "/", ".", "l", "o", "c", "a", "l",
        "/", "s", "h", "a", "r", "e", "/", "a", "p", "p", "l", "i", "c", "a",
        "t", "i", "o", "n", "s", "/", "v", "/", "b", ".", "d", "e", "s", "k",
        "t", "o", "p">>
    /\ fnOut.probes[3].path = <<"/", "d", "1", "/", "a", "p", "p", "l", "i",
        "c", "a", "t", "i", "o", "n", "s", "/", "v", "-", "b", ".", "d", "e",
        "s", "k", "t", "o", "p">>
    /\ fnOut.probes[4].path = <<"/", "d", "1", "/", "a", "p", "p", "l", "i",
        "c", "a", "t", "i", "o", "n", "s", "/", "v", "/", "b", ".", "d", "e",
        "s", "k", "t", "o", "p">>
    /\ fnOut.probes[5].path = <<"/", "d", "2", "/", "a", "p", "p", "l", "i",
        "c", "a", "t", "i", "o", "n", "s", "/", "v", "-", "b", ".", "d", "e",
        "s", "k", "t", "o", "p">>
    /\ fnOut.probes[5].status = "plain_file"
    /\ fnOut.res = Ok

\* character by character: `^` written `^^`, `&` written `^&`
RECURSIVE CaretEscaped(_)
CaretEscaped(s) ==
    IF s = <<>> THEN <<>>
    ELSE (IF Head(s) = "^" THEN <<"^", "^">>
          ELSE IF Head(s) = "&" THEN <<"^", "&">>
          ELSE <<Head(s)>>) \o CaretEscaped(Tail(s))

\* character by character: `&` written `"&"`
RECURSIVE AmpQuoted(_)
AmpQuoted(s) ==
    IF s = <<>> THEN <<>>
    ELSE (IF Head(s) = "&" THEN <<"\"", "&", "\"">> ELSE <<Head(s)>>)
         \o AmpQuoted(Tail(s))

\* the three commands of the http arm as the claim lists them
StatedWslCommands(url) ==
    <<[name |-> <<"c", "m", "d", ".", "e", "x", "e">>, args |-> <<<<"/", "c">>, <<
        "s", "t", "a", "r", "t">>, CaretEscaped(url)>>],
      [name |-> <<"p", "o", "w", "e", "r", "s", "h", "e", "l", "l", ".", "e",
          "x", "e">>, args |-> <<<<"S", "t", "a", "r", "t">>, AmpQuoted(url)>>],
      [name |-> <<"w", "s", "l", "-", "o", "p", "e", "n">>, args |-> <<url>>]>>

\* C28: for an http or https target try_wsl tries cmd.exe /c start (with `^`
\* and `&` caret-escaped), then powershell.exe Start (with `&` quoted), then
\* wsl-open (URL unchanged), in this order and stopping at the first success;
\* for a scheme other than http, https or file it returns NotFound without
\* trying any command
C28_WslHttpOpeners ==
    /\ (IsHttp(fnIn.target.scheme) /\ fnPc # "try_wsl")
          => /\ Len(fnOut.runs) <= 3
             /\ \A i \in 1..Len(fnOut.runs) :
                   /\ fnOut.runs[i].name = StatedWslCommands(fnIn.target.url)[i].name
                   /\ fnOut.runs[i].args = StatedWslCommands(fnIn.target.url)[i].args
                   /\ (i < Len(fnOut.runs)) => ~fnOut.runs[i].ok
             /\ (fnPc = "returned")
                   <=> (/\ fnOut.runs # <<>>
                        /\ \/ fnOut.runs[Len(fnOut.runs)].ok
                           \/ Len(fnOut.runs) = 3)
             /\ (fnPc = "returned")
                   => (fnOut.res.ok <=> fnOut.runs[Len(fnOut.runs)].ok)
    /\ (~IsHttp(fnIn.target.scheme) /\ fnIn.target.scheme # <<"f", "i", "l",
        "e">>
        /\ fnPc # "try_wsl")
          => /\ fnPc = "returned"
             /\ fnOut.res = Err("NotFound")
             /\ fnOut.runs = <<>>

\* http://e/?a^b&c: cmd.exe and powershell.exe failed, wsl-open opened it
C28_Witness ==
    /\ fnPc = "returned"
    /\ fnIn.target.url = <<"h", "t", "t", "p", ":", "/", "/", "e", "/", "?",
        "a", "^", "b", "&", "c">>
    /\ Len(fnOut.runs) = 3
    /\ fnOut.runs[1].args[3] = <<"h", "t", "t", "p", ":", "/", "/", "e", "/",
        "?", "a", "^", "^", "b", "^", "&", "c">>
    /\ fnOut.runs[2].args[2] = <<"h", "t", "t", "p", ":", "/", "/", "e", "/",
        "?", "a", "^", "b", "\"", "&", "\"", "c">>
    /\ fnOut.runs[3].args = <<<<"h", "t", "t", "p", ":", "/", "/", "e", "/",
        "?", "a", "^", "b", "&", "c">>>>
    /\ ~fnOut.runs[1].ok /\ ~fnOut.runs[2].ok /\ fnOut.runs[3].ok
    /\ fnOut.res = Ok

\* the text with every `\` turned into `/`
Forwardslashed(s) == [i \in 1..Len(s) |-> IF s[i] = "\\" THEN "/" ELSE s[i]]

C30_OnlyDriveC ==
    (fnOut.tokens # <<>>)
        => LET path == fnOut.tokens[1]
               supported ==
                   /\ Len(path) > 3
                   /\ SubSeq(path, 1, 3) \in {<<"C", ":", "\\">>, <<"c", ":",
                       "\\">>}
           IN  IF supported
               THEN /\ fnPc \in {"run_command", "returned"}
                    /\ fnOut.cmd # <<>>
                    /\ fnOut.cmd[1] = fnOut.wc[1].root \o <<"/">>
                          \o Forwardslashed(SubSeq(path, 4, Len(path)))
               ELSE /\ fnPc = "returned"
                    /\ fnOut.res = Err("NotFound")
                    /\ fnOut.cmd = <<>>

\* the desktop-specific step found the Flatpak container
UnderFlatpak ==
    /\ UnixDefault
    /\ "desktop" \in {tried[i] : i \in 1..Len(tried)}
    /\ desktop.name = Txt.flatpak

\* C31: under Flatpak a target whose scheme is not http or https makes the
\* open operation launch no command at all and fail, and for an http or https
\* target the desktop-specific step tries xdg-open and nothing else
C31_FlatpakHttpOnly ==
    /\ (UnderFlatpak /\ ~IsHttp(Scheme(target)))
          => /\ ~(last.role = "launch" /\ last.real /\ last.proc \in ChildExits)
             /\ (pc = "done") => ~res.ok
    /\ (UnderFlatpak /\ IsHttp(Scheme(target)) /\ tried[Len(tried)] = "desktop")
          => /\ Len(runs) <= 1
             /\ \A i \in 1..Len(runs) : runs[i].name = <<"x", "d", "g", "-",
                 "o", "p", "e", "n">>

\* C32: whenever the chain reports failure, the BROWSER, Haiku, XDG and
\* desktop-specific steps have each been entered once and failed, and
\* x-www-browser was then attempted exactly once with the target, whatever the
\* desktop guessed and whatever error the desktop-specific step gave
C32_XWwwBrowserLast ==
    (UnixDefault /\ pc = "done" /\ ~res.ok)
        => /\ tried = <<"browser_env", "haiku", "xdg", "desktop", "x_www_browser">>
           /\ Len(runs) = 1
           /\ runs[1].name = <<"x", "-", "w", "w", "w", "-", "b", "r", "o",
               "w", "s", "e", "r">>
           /\ last.name = <<"x", "-", "w", "w", "w", "-", "b", "r", "o", "w",
               "s", "e", "r">>
           /\ last.found => last.args = <<target>>
           /\ res = Err("NotFound")

\* under KDE, after the three KDE openers, x-www-browser was found and failed
C32_Witness ==
    /\ UnixDefault /\ pc = "done" /\ ~res.ok
    /\ desktop.name = Txt.kde
    /\ last.name = <<"x", "-", "w", "w", "w", "-", "b", "r", "o", "w", "s",
        "e", "r">> /\ last.found
    /\ last.args = <<target>>

\* C33: for_matching_path invokes the operation at most once per call; when
\* the operation fails on the first matching PATH entry its error is returned
\* as is, and no later PATH entry is examined or tried, even one that holds
\* an executable of that name
C33_OperationAtMostOnce ==
    /\ Len(fnOut.invoked) <= 1
    /\ Len(fnOut.op) = Len(fnOut.invoked)
    /\ (fnOut.invoked # <<>>)
          => /\ fnPc = "returned"
             /\ fnOut.res = fnOut.op[1]
             /\ fnOut.examined[Len(fnOut.examined)] = fnOut.invoked[1]

\* PATH=/a:/b with an executable app in both: the operation failed with Other
\* on /a/app and /b/app was left alone
C33_Witness ==
    /\ fnPc = "returned"
    /\ fnIn.name = <<"a", "p", "p">>
    /\ fnIn.path = SetTo(<<"/", "a", ":", "/", "b">>)
    /\ fnIn.fs[<<"/", "a", "/", "a", "p", "p">>] = "exec_file"
    /\ fnIn.fs[<<"/", "b", "/", "a", "p", "p">>] = "exec_file"
    /\ fnOut.invoked = <<<<"/", "a", "/", "a", "p", "p">>>>
    /\ fnOut.examined = <<<<"/", "a", "/", "a", "p", "p">>>>
    /\ fnOut.res = Err("Other")

\* ---------------------------------------------------------------------------
\* SpecTok: the scan of for_each_token (common.rs:7-45), one character of the
\* line per step
\* ---------------------------------------------------------------------------

\* the longest line scanned
MaxLineLen == 5

\* the characters of a line: a letter, the space, the double quote and a
\* letter of two bytes
TokChars == {"a", " ", "\"", "é"}

TokLines == UNION {[1..n -> TokChars] : n \in 0..MaxLineLen}

TokInit ==
    /\ ChainParked
    /\ TplParked
    /\ fnPc = "scan"
    /\ \E line \in TokLines : fnIn = [line |-> line]
    /\ fnOut = TokStart

\* common.rs:14-41: the next character
TokChar ==
    /\ fnPc = "scan"
    /\ fnOut.idx < Len(fnIn.line)
    /\ fnOut' = TokStep(fnIn.line, fnOut)
    /\ fnPc' = IF fnOut'.panic THEN "panic" ELSE fnPc
    /\ UNCHANGED <<fnIn, chainVars, tplVars>>

\* common.rs:42-45: the end of the line
TokFinish ==
    /\ fnPc = "scan"
    /\ fnOut.idx = Len(fnIn.line)
    /\ fnOut' = TokEnd(fnIn.line, fnOut)
    /\ fnPc' = IF fnOut'.panic THEN "panic" ELSE "returned"
    /\ UNCHANGED <<fnIn, chainVars, tplVars>>

TokNext == TokChar \/ TokFinish

SpecTok == TokInit /\ [][TokNext]_vars

\* the position of the first `ch` of s at or after i, or Len(s) + 1
RECURSIVE NextAt(_, _, _)
NextAt(s, i, chars) ==
    IF i > Len(s) \/ s[i] \in chars THEN i ELSE NextAt(s, i + 1, chars)

\* the tokens as the claim describes them: the text between a pair of double
\* quotes is one token, spaces kept; outside quotes tokens are separated by
\* spaces and no token is empty; the last token needs no terminator
RECURSIVE StatedTokens(_, _)
StatedTokens(s, i) ==
    IF i > Len(s) THEN <<>>
    ELSE IF s[i] = " " THEN StatedTokens(s, i + 1)
    ELSE IF s[i] = "\""
    THEN LET j == NextAt(s, i + 1, {"\""})
         IN  <<SubSeq(s, i + 1, j - 1)>> \o StatedTokens(s, j + 1)
    ELSE LET j == NextAt(s, i, {" ", "\""})
         IN  <<SubSeq(s, i, j - 1)>> \o StatedTokens(s, j)

\* C34: for_each_token delivers the tokens of the line left to right, one
\* call per token: the text between a pair of double quotes is one token,
\* without the quotes and with its spaces, outside quotes tokens are
\* separated by spaces, several spaces give no empty token, and a last token
\* without terminator is delivered
C34_TokensAsStated ==
    (fnPc # "scan")
        => /\ fnPc = "returned"
           /\ [k \in 1..Len(fnOut.tokens) |-> fnOut.tokens[k].text]
                 = StatedTokens(fnIn.line, 1)

\* a line of single-byte characters
SingleByte(s) == \A k \in 1..Len(s) : s[k] \notin TwoByteChars

\* C35: for a line of single-byte characters, in every state of the scan
\* in_quotes implies that a start is recorded, every delivered token is a
\* contiguous slice of the line with start not after end, no token holds a
\* double quote, and a token started outside quotes holds no space
C35_ScanInvariant ==
    SingleByte(fnIn.line)
        => /\ fnPc # "panic"
           /\ fnOut.in_quotes => fnOut.start # <<>>
           /\ \A k \in 1..Len(fnOut.tokens) :
                 LET t == fnOut.tokens[k]
                 IN  /\ 0 <= t.from /\ t.from <= t.to /\ t.to <= Len(fnIn.line)
                     /\ t.text = SubSeq(fnIn.line, t.from + 1, t.to)
                     /\ \A c \in 1..Len(t.text) : t.text[c] # "\""
                     /\ (~t.quoted) => \A c \in 1..Len(t.text) : t.text[c] # " "

\* `a "a `: inside the open quote, after the token a was delivered
C35_Witness ==
    /\ fnIn.line = <<"a", " ", "\"", "a", " ">>
    /\ fnPc = "scan"
    /\ fnOut.in_quotes /\ fnOut.start = <<3>> /\ fnOut.idx = 5
    /\ Len(fnOut.tokens) = 1

\* ---------------------------------------------------------------------------
\* SpecRound: wsl_path_lin2win followed by wsl_path_win2lin (unix.rs:730-762)
\* on Linux paths under and outside the Windows root
\* ---------------------------------------------------------------------------

\* the Windows roots
RoundRoots == {<<"/", "m", "n", "t", "/", "c">>, <<"/">>}

\* the directories the paths start with, and the components put under them
RoundBases == {<<"/", "m", "n", "t", "/", "c">>, <<"/", "m", "n", "t", "/",
    "c", "/">>, <<"/", "m", "n", "t", "/", "c", "x">>, <<"/", "h", "o", "m",
    "e">>, <<>>}

RoundComponents == {<<"a">>, <<"é">>, <<"b", " ", "c">>, <<".", ".">>, <<"x",
    ".", "y">>, <<"a", "\\", "b">>}

RoundPaths ==
    RoundBases
    \cup {b \o <<"/">> \o c : b \in RoundBases, c \in RoundComponents}
    \cup {b \o <<"/">> \o c \o <<"/">> \o d :
             b \in RoundBases, c \in RoundComponents, d \in RoundComponents}

\* what get_wsl_distro_name gives when it is asked
RoundDistroNames == {OkOf(<<"U", "b", "u", "n", "t", "u">>), ErrOf("Other")}

RoundInit ==
    /\ ChainParked
    /\ TplParked
    /\ fnPc = "lin2win"
    /\ \E root \in RoundRoots, path \in RoundPaths \ {<<>>},
          name \in RoundDistroNames :
          fnIn = [wc |-> [root |-> root], path |-> path, name |-> name]
    /\ fnOut = [win |-> Pending, lin |-> Pending]

\* unix.rs:747-762
RoundLin2Win ==
    /\ fnPc = "lin2win"
    /\ LET w == WslPathLin2Win(fnIn.wc, fnIn.path, fnIn.name)
       IN  /\ fnOut' = [fnOut EXCEPT !.win = w]
           /\ fnPc' = IF w.ok THEN "win2lin" ELSE "returned"
    /\ UNCHANGED <<fnIn, chainVars, tplVars>>

\* unix.rs:730-743
RoundWin2Lin ==
    /\ fnPc = "win2lin"
    /\ LET l == WslPathWin2Lin(fnIn.wc, fnOut.win.value)
       IN  /\ fnOut' = [fnOut EXCEPT !.lin = l]
           /\ fnPc' = IF ~l.ok /\ l.kind = "panic" THEN "panic" ELSE "returned"
    /\ UNCHANGED <<fnIn, chainVars, tplVars>>

RoundNext == RoundLin2Win \/ RoundWin2Lin

SpecRound == RoundInit /\ [][RoundNext]_vars

\* the components of a path as Path compares them: empty ones dropped
PathComponents(p) == SelectSeq(StrSplit(p, "/"), LAMBDA c : c # <<>>)

\* p lies strictly below the root, as a path
StrictlyBelow(p, root) ==
    LET pc_ == PathComponents(p)
        rc == PathComponents(root)
    IN  /\ p # <<>> /\ p[1] = "/"
        /\ Len(pc_) > Len(rc)
        /\ SubSeq(pc_, 1, Len(rc)) = rc

\* C36: for every Linux path p strictly below the Windows root whose
\* components hold no backslash, wsl_path_win2lin(wsl_path_lin2win(p))
\* returns p
C36_WslRoundTrip ==
    (/\ fnPc \notin {"lin2win", "win2lin"}
     /\ StrictlyBelow(fnIn.path, fnIn.wc.root)
     /\ \A k \in 1..Len(fnIn.path) : fnIn.path[k] # "\\")
        => /\ fnPc = "returned"
           /\ fnOut.win.ok
           /\ fnOut.lin.ok
           /\ fnOut.lin.value # <<>> /\ fnOut.lin.value[1] = "/"
           /\ PathComponents(fnOut.lin.value) = PathComponents(fnIn.path)

\* /mnt/c/é/b c went to C:\é\b c and came back
C36_Witness ==
    /\ fnPc = "returned"
    /\ fnIn.wc.root = <<"/", "m", "n", "t", "/", "c">>
    /\ fnIn.path = <<"/", "m", "n", "t", "/", "c", "/", "é", "/", "b",
        " ", "c">>
    /\ fnOut.win = OkOf(<<"C", ":", "\\", "é", "\\", "b", " ", "c">>)
    /\ fnOut.lin = OkOf(<<"/", "m", "n", "t", "/", "c", "/", "é", "/",
        "b", " ", "c">>)

(***************************************************************************)
(* SpecLive: the Unix call alone, as the single thread that runs it: the   *)
(* call is synchronous, so whenever a next step exists the thread takes it *)
(* (weak fairness of the steps). A child that was waited for has exited:   *)
(* every foreground run and every query ends in one of ChildExits.         *)
(***************************************************************************)
LiveInit == Init /\ platform \in UnixPlatforms

LiveNext ==
    \/ OpenBrowserInternal
    \/ BrowserEnvRead
    \/ BrowserEnvSkipEmpty
    \/ BrowserEnvAbort
    \/ BrowserEnvTry
    \/ BrowserEnvExhausted
    \/ TryHaiku
    \/ TryXdg
    \/ TryXdgDir
    \/ XdgExhausted
    \/ DesktopGuess
    \/ DesktopOpener
    \/ TryWslFile
    \/ TryXWwwBrowser

SpecLive == LiveInit /\ [][LiveNext]_vars /\ WF_vars(LiveNext)

\* C37: the strategies of a Unix call are entered one after the other in the
\* fixed order, each at most once; a BROWSER candidate that was passed is not
\* looked at again; and, every child that is waited for having exited, the
\* call eventually returns (success or an error).
C37_SequentialAndFinishes ==
    /\ [](UnixDefault => IsPrefix(tried, ChainOrder))
    /\ [][(UnixDefault /\ cands # <<>> /\ cands' # cands)
             => cands' = Tail(cands)]_vars
    /\ (UnixDefault /\ pc = "open") ~> (pc = "done")

(***************************************************************************)
(* SpecLs: macOS open_browser_internal step by step, with the native calls *)
(* it makes and the status LSOpenFromURLSpec returns.                      *)
(***************************************************************************)
\* the browsers a caller can name: the `_` arm of the match (macos.rs:52-57)
\* takes every browser without an application URL, WebPositive among them
LsBrowsers == Browsers \cup {"WebPositive"}

LsInit ==
    /\ ChainParked
    /\ TplParked
    /\ fnPc = "open_browser_internal"
    /\ fnIn \in [browser : LsBrowsers, world : NativeWorlds("macos"),
                 dry_run : BOOLEAN]
    /\ fnOut = [calls |-> <<>>, status |-> <<>>, res |-> Pending]

\* macos.rs:24-62: the application URL of the browser and the URL of the target
LsAppUrl ==
    /\ fnPc = "open_browser_internal"
    /\ IF fnIn.browser \notin MacosBrowsers
       THEN /\ fnPc' = "returned"
            /\ fnOut' = [fnOut EXCEPT !.res = Err("NotFound")]
       ELSE LET made == IF fnIn.browser = "Default"
                        THEN <<"CFURLCreateWithBytes",
                               "LSCopyDefaultApplicationURLForURL">>
                        ELSE <<"CFURLCreateWithBytes">>
            IN  IF fnIn.world = "no_cfurl"
                THEN /\ fnPc' = "returned"
                     /\ fnOut' = [fnOut EXCEPT !.calls = <<"CFURLCreateWithBytes">>,
                                               !.res = Err("Other")]
                ELSE /\ fnPc' = "app_url"
                     /\ fnOut' = [fnOut EXCEPT !.calls = made]
    /\ UNCHANGED <<fnIn, chainVars, tplVars>>

\* macos.rs:79-98: a dry run tests that the application path is a directory
LsDryRun ==
    /\ fnPc = "app_url"
    /\ fnIn.dry_run
    /\ fnPc' = "returned"
    /\ fnOut' = [fnOut EXCEPT
                    !.res = IF fnIn.world = "app_dir" THEN Ok
                            ELSE IF fnIn.world = "app_absent"
                            THEN Err("NotFound")
                            ELSE Err("Other")]
    /\ UNCHANGED <<fnIn, chainVars, tplVars>>

\* macos.rs:100-108: LSOpenFromURLSpec is called and its status decides
LsLaunch ==
    /\ fnPc = "app_url"
    /\ ~fnIn.dry_run
    /\ fnPc' = "returned"
    /\ \E status \in IF fnIn.world = "app_dir" THEN LsStatuses
                     ELSE LsStatuses \ {0} :
          fnOut' = [fnOut EXCEPT
                       !.calls = Append(@, "LSOpenFromURLSpec"),
                       !.status = <<status>>,
                       !.res = IF status = 0 THEN Ok
                               ELSE Err(LSErrorKind(status))]
    /\ UNCHANGED <<fnIn, chainVars, tplVars>>

LsNext == LsAppUrl \/ LsDryRun \/ LsLaunch

SpecLs == LsInit /\ [][LsNext]_vars

\* C38: on macOS the status of the native launch call decides the result: 0 is
\* success, -43 and -10814 are NotFound, -10826 is PermissionDenied, every
\* other status is Other; and a browser without an application mapping
\* (InternetExplorer, WebPositive) fails with NotFound before any native call.
C38_StatusDecides ==
    (fnPc = "returned") =>
        /\ (fnOut.status # <<>>) =>
              LET status == fnOut.status[1]
              IN  /\ (status = 0) => fnOut.res = Ok
                  /\ (status \in {-43, -10814}) => fnOut.res = Err("NotFound")
                  /\ (status = -10826) => fnOut.res = Err("PermissionDenied")
                  /\ (status \notin {0, -43, -10814, -10826})
                        => fnOut.res = Err("Other")
        /\ (fnIn.browser \in {"InternetExplorer", "WebPositive"})
              => (fnOut.res = Err("NotFound") /\ fnOut.calls = <<>>)

C38_Witness ==
    /\ fnPc = "returned"
    /\ fnIn.browser = "Opera"
    /\ fnOut.status = <<-10814>>
    /\ fnOut.calls = <<"CFURLCreateWithBytes", "LSOpenFromURLSpec">>
    /\ fnOut.res = Err("NotFound")

(***************************************************************************)
(* SpecOld: open_browser of lib.rs on Linux and the BSDs: BROWSER, then    *)
(* xdg-open, gvfs-open and gnome-open through Command::status, then the    *)
(* exit status turned into the Result of the call.                         *)
(***************************************************************************)
\* the three fixed openers of the chain, in the order of the or_else calls
OldOpeners == <<Txt.xdg_open, Txt.gvfs_open, Txt.gnome_open>>

OldInit ==
    /\ ChainParked
    /\ TplParked
    /\ fnPc = "open_browser"
    /\ fnIn \in [browser : {"Default", "Firefox"}, url : Targets,
                 env : BrowserEnvValues]
    /\ fnOut = [cands |-> <<>>, next |-> 1, attempts |-> <<>>,
                status |-> ErrOf("pending"), res |-> Pending]

\* Command::status(): the exit status of a child that started (whatever the
\* status is), or the error of the spawn
CommandStatus(proc) ==
    IF proc \in ChildExits THEN OkOf(proc) ELSE ErrOf(SpawnErrorKind(proc))

\* lib.rs:439-448: only the default browser is supported
OldOpenBrowserInternal ==
    /\ fnPc = "open_browser"
    /\ IF fnIn.browser = "Default"
       THEN /\ fnPc' = "browser_env"
            /\ fnOut' = fnOut
       ELSE /\ fnPc' = "and_then"
            /\ fnOut' = [fnOut EXCEPT !.status = ErrOf("NotFound")]
    /\ UNCHANGED <<fnIn, chainVars, tplVars>>

\* lib.rs:457-459: BROWSER is read; unset is an error at once
OldBrowserEnvRead ==
    /\ fnPc = "browser_env"
    /\ IF fnIn.env.set
       THEN /\ fnPc' = "candidate"
            /\ fnOut' = [fnOut EXCEPT !.cands = StrSplit(fnIn.env.value, ":")]
       ELSE /\ fnPc' = "opener"
            /\ fnOut' = [fnOut EXCEPT !.status = ErrOf("NotFound")]
    /\ UNCHANGED <<fnIn, chainVars, tplVars>>

\* lib.rs:459-480: one candidate of BROWSER; the status of a command that
\* started is returned whatever it is
OldCandidate ==
    /\ fnPc = "candidate"
    /\ fnOut.cands # <<>>
    /\ LET cand == Head(fnOut.cands)
           cmdarr == BrowserCmdarr(cand, fnIn.url)
       IN  IF cand = <<>>
           THEN /\ fnPc' = fnPc
                /\ fnOut' = [fnOut EXCEPT !.cands = Tail(@)]
           ELSE IF cmdarr = <<>>
           THEN /\ fnPc' = "panic"
                /\ fnOut' = fnOut
           ELSE \E proc \in ProcBehaviours :
                   /\ fnPc' = IF proc \in ChildExits THEN "and_then" ELSE fnPc
                   /\ fnOut' = [fnOut EXCEPT
                                   !.cands = Tail(@),
                                   !.attempts = Append(@,
                                       [via |-> "BROWSER", name |-> cmdarr[1],
                                        args |-> BrowserCmdArgs(cand, fnIn.url),
                                        proc |-> proc]),
                                   !.status = IF proc \in ChildExits
                                              THEN OkOf(proc) ELSE @]
    /\ UNCHANGED <<fnIn, chainVars, tplVars>>

\* lib.rs:482-485: no candidate started
OldCandidatesExhausted ==
    /\ fnPc = "candidate"
    /\ fnOut.cands = <<>>
    /\ fnPc' = "opener"
    /\ fnOut' = [fnOut EXCEPT !.status = ErrOf("NotFound")]
    /\ UNCHANGED <<fnIn, chainVars, tplVars>>

\* lib.rs:440-443: one arm of the or_else chain: the opener is run with the
\* url; the next arm is entered only on an Err of Command::status
OldOpener ==
    /\ fnPc = "opener"
    /\ \E proc \in ProcBehaviours :
          LET status == CommandStatus(proc)
              final == fnOut.next = Len(OldOpeners)
          IN  /\ fnPc' = IF status.ok \/ final THEN "and_then" ELSE fnPc
              /\ fnOut' = [fnOut EXCEPT
                              !.next = IF status.ok \/ final THEN @ ELSE @ + 1,
                              !.attempts = Append(@,
                                  [via |-> "opener",
                                   name |-> OldOpeners[fnOut.next],
                                   args |-> <<fnIn.url>>, proc |-> proc]),
                              !.status = status]
    /\ UNCHANGED <<fnIn, chainVars, tplVars>>

\* lib.rs:207-226: exit code 0 is Ok, another code or a signal is Other, an
\* error is passed on
OldAndThen ==
    /\ fnPc = "and_then"
    /\ fnPc' = "returned"
    /\ fnOut' = [fnOut EXCEPT
                    !.res = IF ~fnOut.status.ok THEN Err(fnOut.status.kind)
                            ELSE IF fnOut.status.value = "exit_zero" THEN Ok
                            ELSE Err("Other")]
    /\ UNCHANGED <<fnIn, chainVars, tplVars>>

OldNext ==
    \/ OldOpenBrowserInternal
    \/ OldBrowserEnvRead
    \/ OldCandidate
    \/ OldCandidatesExhausted
    \/ OldOpener
    \/ OldAndThen

SpecOld == OldInit /\ [][OldNext]_vars

\* C39: with Browser::Default the openers are attempted in the order BROWSER
\* candidates, xdg-open, gvfs-open, gnome-open, and whenever an opener did
\* not open the URL (it could not be started, or it exited with a non-zero
\* status) the next one is attempted: a call has returned only after a
\* success or after gnome-open, and its result is that of the last attempt.
C39_NextOpenerOnFailure ==
    (fnPc = "returned" /\ fnIn.browser = "Default") =>
        LET k == Len(fnOut.attempts)
            cs == Cardinality({i \in 1..k : fnOut.attempts[i].via = "BROWSER"})
        IN  /\ k >= 1
            /\ \A i \in 1..k :
                  IF i <= cs THEN fnOut.attempts[i].via = "BROWSER"
                  ELSE fnOut.attempts[i].name = OldOpeners[i - cs]
            /\ \A i \in 1..k :
                  (fnOut.attempts[i].proc # "exit_zero")
                     => (i < k \/ fnOut.attempts[i].name = Txt.gnome_open)
            /\ fnOut.res.ok <=> (fnOut.attempts[k].proc = "exit_zero")

(***************************************************************************)
(* SpecCmd: get_browser_cmd of windows.rs on the command line registered   *)
(* for http and the target.                                                *)
(***************************************************************************)
\* the longest command line, in characters
MaxCmdLen == 5

\* characters of a command line: a letter, a letter of two bytes, the blank,
\* the double quote and the three that make %0 and %1
CmdChars == {"a", "é", " ", "\"", "%", "0", "1"}

\* the double quotes of the line up to position p
QuotesUpTo(line, p) == Cardinality({q \in 1..p : line[q] = "\""})

\* command lines as the registry holds them: a quoted token stands apart, its
\* opening quote at the start of the line or after a blank, its closing quote
\* at the end of the line or before a blank
CmdLines ==
    {line \in SeqsUpTo(CmdChars, MaxCmdLen) :
        \A p \in 1..Len(line) :
           (line[p] = "\"") =>
              IF QuotesUpTo(line, p) % 2 = 1
              THEN p = 1 \/ line[p - 1] = " "
              ELSE p = Len(line) \/ line[p + 1] = " "}

Placeholders == {<<"%", "0">>, <<"%", "1">>}

\* windows.rs:110-128, get_browser_cmd: program and arguments of the command,
\* or the error; the call aborts where for_each_token does
GetBrowserCmd(cmdline, url) ==
    LET raw == ForEachToken(cmdline)
        tokens == [k \in 1..Len(raw) |->
                      IF raw[k] \in Placeholders THEN url ELSE raw[k]]
    IN  IF ForEachTokenPanics(cmdline)
        THEN [res |-> ErrOf("panic"), argv |-> <<>>]
        ELSE IF tokens = <<>>
        THEN [res |-> ErrOf("NotFound"), argv |-> <<>>]
        ELSE [res |-> OkOf(tokens[1]), argv |-> tokens]

CmdInit ==
    /\ ChainParked
    /\ TplParked
    /\ fnPc = "get_browser_cmd"
    /\ fnIn \in [line : CmdLines, url : Targets]
    /\ fnOut = [res |-> ErrOf("pending"), argv |-> <<>>]

CmdBuild ==
    /\ fnPc = "get_browser_cmd"
    /\ fnOut' = GetBrowserCmd(fnIn.line, fnIn.url)
    /\ fnPc' = IF fnOut'.res.kind = "panic" THEN "panic" ELSE "returned"
    /\ UNCHANGED <<fnIn, chainVars, tplVars>>

CmdNext == CmdBuild

SpecCmd == CmdInit /\ [][CmdNext]_vars

\* how many elements of s are in the set xs
Occurrences(s, xs) == Cardinality({k \in 1..Len(s) : s[k] \in xs})

\* C40: the command built from the registry command line carries the target
\* exactly as many times as the line has tokens %0 or %1 (quotes removed) and
\* has as many words as the line has tokens, so the target is never appended:
\* without such a token the command does not carry the target; and a line
\* without tokens gives NotFound.
C40_TargetPerPlaceholder ==
    (fnPc = "returned") =>
        LET tokens == StatedTokens(fnIn.line, 1)
        IN  IF tokens = <<>>
            THEN fnOut.res = ErrOf("NotFound")
            ELSE /\ fnOut.res.ok
                 /\ Len(fnOut.argv) = Len(tokens)
                 /\ Occurrences(fnOut.argv, {fnIn.url})
                       = Occurrences(tokens, Placeholders)

====
